---- MODULE Spec2Model ----
(***************************************************************************)
(* Regions (Box, Grid, Mask), neighbourhood kernels, filters, resampling   *)
(* methods, affinities and program options of the raster library, as state *)
(* machines.                                                               *)
(*                                                                         *)
(* Positions are 2-D (the template parameter N = 2, the default of every   *)
(* class modelled here); a position is a tuple <<x0, x1>>, axis i of the   *)
(* source being index i + 1 of the tuple.                                  *)
(***************************************************************************)
EXTENDS Integers, Sequences, FiniteSets

VARIABLES
  grid, gridIn, gridOp,            \* a Grid, the constructor's arguments, the last operation
  medIn, medOut, medOob, medOp,    \* MedianFilter: neighbours, result, out-of-range read
  morphIn, morphWin, morphPos,     \* morphology: input raster, structuring element, position
  morphOut, morphOp,               \* the kernels' results, the call made
  morphPatch,                      \* the patch after the calls (in, patch, pos)
  mask, maskPrev, maskArg,         \* a Mask, the Mask before the last call, the call's arguments
  maskBall, maskShift,             \* arguments of ball(), vector the mask has moved by
  maskOverrun, maskThrown, maskOp, \* flags written past the storage, failure raised, last call
  nearPos, nearIntegral, nearOut,  \* Nearest: position in tenths, integer position, value read
  nearOp,
  aff, affPrev, affInv, affOut,    \* Affinity: the object, its state before the call, results
  affThrown, affOp, affSteps,
  affIn, affRes,                   \* the raster resampled by operator*, and the result
  kerValues, kerNeighbors, kerOut, \* Kernels: m_values, the neighbors, the values returned
  kerOp,
  filIn, filView, filKernel,       \* Filters: the raster, its extrapolation, the kernel values
  filOut, filOp,                   \* and kind; the filtered values
  filWindow,                       \* the structuring element of the mean filter
  perIn, perPos, perOut, perOp,    \* Periodic: the raster, the position asked, the result
  wtValues, wtIn, wtKernel,        \* filters from weights: the weights, the input, the dense
  wtSparse, wtOut, wtOp,           \* and the sparse filter built, the outputs
  poHelp, poDecl, poPositional,    \* ProgramOptions: m_help, the options declared, m_positional,
  poArgs, poVariables, poParses,   \* the last command line, m_variables, the command lines
  poOp                             \* stored

gridVars == <<grid, gridIn, gridOp>>

medVars == <<medIn, medOut, medOob, medOp>>

morphVars == <<morphIn, morphWin, morphPos, morphOut, morphOp, morphPatch>>

maskVars == <<mask, maskPrev, maskArg, maskOverrun, maskThrown, maskOp, maskBall, maskShift>>

nearVars == <<nearPos, nearIntegral, nearOut, nearOp>>

affVars == <<aff, affPrev, affInv, affOut, affThrown, affOp, affSteps, affIn, affRes>>

kerVars == <<kerValues, kerNeighbors, kerOut, kerOp>>

filVars == <<filIn, filView, filKernel, filOut, filOp, filWindow>>

perVars == <<perIn, perPos, perOut, perOp>>

wtVars == <<wtValues, wtIn, wtKernel, wtSparse, wtOut, wtOp>>

poVars == <<poHelp, poDecl, poPositional, poArgs, poVariables, poParses, poOp>>

vars == <<gridVars, medVars, morphVars, maskVars, nearVars, affVars, kerVars, filVars, perVars, wtVars, poVars>>

notGridVars == <<medVars, morphVars, maskVars, nearVars, affVars, kerVars, filVars, perVars, wtVars, poVars>>

notMedVars == <<gridVars, morphVars, maskVars, nearVars, affVars, kerVars, filVars, perVars, wtVars, poVars>>

notMorphVars == <<gridVars, medVars, maskVars, nearVars, affVars, kerVars, filVars, perVars, wtVars, poVars>>

notMaskVars == <<gridVars, medVars, morphVars, nearVars, affVars, kerVars, filVars, perVars, wtVars, poVars>>

notNearVars == <<gridVars, medVars, morphVars, maskVars, affVars, kerVars, filVars, perVars, wtVars, poVars>>

notAffVars == <<gridVars, medVars, morphVars, maskVars, nearVars, kerVars, filVars, perVars, wtVars, poVars>>

notKerVars == <<gridVars, medVars, morphVars, maskVars, nearVars, affVars, filVars, perVars, wtVars, poVars>>

notFilVars == <<gridVars, medVars, morphVars, maskVars, nearVars, affVars, kerVars, perVars, wtVars, poVars>>

notPerVars == <<gridVars, medVars, morphVars, maskVars, nearVars, affVars, kerVars, filVars, wtVars, poVars>>

notWtVars == <<gridVars, medVars, morphVars, maskVars, nearVars, affVars, kerVars, filVars, perVars, poVars>>

notPoVars == <<gridVars, medVars, morphVars, maskVars, nearVars, affVars, kerVars, filVars, perVars, wtVars>>

(***************************************************************************)
(* Bounds of the model.                                                    *)
(***************************************************************************)
MaxFront == 1
MaxLen == 4
MaxStep == 3
MaxCoord == 5
MaxMedLen == 4
MaxMedVal == 3
MorphW == 3
MorphH == 2
MaxPatchW == 2
MaxPatchH == 1
MaxMaskLen == 2
MaxTenths == 20
MaxAffOps == 2
MaxCommuteOps == 1
AffOutLen == 2
MaxKerLen == 3
MaxKerVal == 2
MaxFilLen == 3
MaxFilKer == 3
MaxRadius2 == 3
MaxPerLen == 3
MaxPerPos == 7
MaxWtLen == 4
MaxSparseLen == 3
MaxSparseSize == 4

Axes == {1, 2}

Abs(a) == IF a < 0 THEN -a ELSE a

\* C++ integer division and remainder: truncation toward zero, the
\* remainder has the sign of the dividend.
CDiv(a, b) == IF (a < 0) = (b < 0) THEN Abs(a) \div Abs(b) ELSE -(Abs(a) \div Abs(b))

CRem(a, b) == IF a >= 0 THEN a % Abs(b) ELSE -((-a) % Abs(b))

CeilDiv(a, b) == (a + b - 1) \div b

(***************************************************************************)
(* Position and Box: value types with element-wise arithmetic.             *)
(***************************************************************************)
PosAdd(p, q) == <<p[1] + q[1], p[2] + q[2]>>

PosSub(p, q) == <<p[1] - q[1], p[2] - q[2]>>

PosNeg(p) == <<-p[1], -p[2]>>

PosFill(s) == <<s, s>>

MkBox(f, b) == [front |-> f, back |-> b]

BoxLength(b, i) == b.back[i] - b.front[i] + 1

BoxShape(b) == <<BoxLength(b, 1), BoxLength(b, 2)>>

BoxTranslate(b, v) == MkBox(PosAdd(b.front, v), PosAdd(b.back, v))

BoxNeg(b) == MkBox(PosNeg(b.back), PosNeg(b.front))

BoxContains(b, p) == \A i \in Axes : b.front[i] <= p[i] /\ p[i] <= b.back[i]

(***************************************************************************)
(* Grid: a box and a step.                                                 *)
(***************************************************************************)
MkGrid(b, s) == [box |-> b, step |-> s]

\* Grid::Grid(box, step): the back is moved by (length - 1) % step.
GridCtor(box, step) ==
  MkGrid(MkBox(box.front,
               [i \in Axes |-> box.back[i] - CRem(BoxLength(box, i) - 1, step[i])]),
         step)

\* Grid::length(i) and Grid::length<I>()
GridLength(g, i) == CDiv(BoxLength(g.box, i), g.step[i])

\* Grid::size()
GridSize(g) == GridLength(g, 1) * GridLength(g, 2)

\* Grid::operator+=(Position) and operator-=(Position)
GridPlus(g, shift) == MkGrid(BoxTranslate(g.box, shift), g.step)

GridMinus(g, shift) == MkGrid(BoxTranslate(g.box, PosNeg(shift)), g.step)

\* Grid::operator-(): a new grid built from the mirrored box and the negated step.
GridNeg(g) == GridCtor(BoxNeg(g.box), PosNeg(g.step))

\* The positions front + k * step of the box [front, back] along one axis.
Nodes(f, b, s) == {x \in f..b : (x - f) % s = 0}

\* Inputs of the constructor: boxes of length 0..MaxLen per axis, the length 0
\* being the empty box, and steps 1..MaxStep; plus the grid of the tiling test.
Fronts == (0..MaxFront) \X (0..MaxFront)

Lens == (0..MaxLen) \X (0..MaxLen)

Steps == (1..MaxStep) \X (1..MaxStep)

Shifts == (-1..1) \X (-1..1)

TestBox == MkBox(<<3, 4>>, <<9, 8>>)

TestStep == <<3, 3>>

GridInputs ==
  {[box |-> MkBox(f, <<f[1] + l[1] - 1, f[2] + l[2] - 1>>), step |-> s] :
     f \in Fronts, l \in Lens, s \in Steps}
  \cup {[box |-> TestBox, step |-> TestStep]}

NoInput == [box |-> MkBox(<<0, 0>>, <<0, 0>>), step |-> <<0, 0>>]

InRange(b) == \A i \in Axes : b.front[i] >= -MaxCoord /\ b.back[i] <= MaxCoord

\* No grid is built yet.
GridInit ==
  /\ grid = MkGrid(NoInput.box, NoInput.step)
  /\ gridIn = NoInput
  /\ gridOp = "none"

GridConstruct ==
  /\ gridOp = "none"
  /\ \E in \in GridInputs :
    /\ grid' = GridCtor(in.box, in.step)
    /\ gridIn' = in
    /\ gridOp' = "ctor"
    /\ UNCHANGED notGridVars

GridPlusVec ==
  \E v \in Shifts :
    /\ gridOp # "none"
    /\ InRange(GridPlus(grid, v).box)
    /\ grid' = GridPlus(grid, v)
    /\ gridIn' = NoInput
    /\ gridOp' = "translate"
    /\ UNCHANGED notGridVars

GridMinusVec ==
  \E v \in Shifts :
    /\ gridOp # "none"
    /\ InRange(GridMinus(grid, v).box)
    /\ grid' = GridMinus(grid, v)
    /\ gridIn' = NoInput
    /\ gridOp' = "translate"
    /\ UNCHANGED notGridVars

\* operator+=(Index) and operator-=(Index): the scalar is added to every coordinate.
GridPlusScalar ==
  \E s \in -1..1 :
    /\ gridOp # "none"
    /\ InRange(GridPlus(grid, PosFill(s)).box)
    /\ grid' = GridPlus(grid, PosFill(s))
    /\ gridIn' = NoInput
    /\ gridOp' = "translate"
    /\ UNCHANGED notGridVars

GridMinusScalar ==
  \E s \in -1..1 :
    /\ gridOp # "none"
    /\ InRange(GridMinus(grid, PosFill(s)).box)
    /\ grid' = GridMinus(grid, PosFill(s))
    /\ gridIn' = NoInput
    /\ gridOp' = "translate"
    /\ UNCHANGED notGridVars

\* operator++ and operator--
GridIncr ==
  /\ gridOp # "none"
  /\ InRange(GridPlus(grid, PosFill(1)).box)
  /\ grid' = GridPlus(grid, PosFill(1))
  /\ gridIn' = NoInput
  /\ gridOp' = "translate"
  /\ UNCHANGED notGridVars

GridDecr ==
  /\ gridOp # "none"
  /\ InRange(GridMinus(grid, PosFill(1)).box)
  /\ grid' = GridMinus(grid, PosFill(1))
  /\ gridIn' = NoInput
  /\ gridOp' = "translate"
  /\ UNCHANGED notGridVars

\* g = -g
GridNegate ==
  /\ gridOp # "none"
  /\ grid' = GridNeg(grid)
  /\ gridIn' = NoInput
  /\ gridOp' = "negate"
  /\ UNCHANGED notGridVars

GridNext ==
  \/ GridConstruct
  \/ GridPlusVec
  \/ GridMinusVec
  \/ GridPlusScalar
  \/ GridMinusScalar
  \/ GridIncr
  \/ GridDecr
  \/ GridNegate


(***************************************************************************)
(* Claims on Grid.                                                         *)
(***************************************************************************)
InLen(i) == BoxLength(gridIn.box, i)

\* C1: for a grid built from a box of length L_i >= 1 along axis i with step
\* s_i >= 1, length(i) is the number of nodes ceil(L_i / s_i) along axis i and
\* size() is the product of these numbers.
C1_SizeIsNodeCount ==
  (gridOp = "ctor" /\ \A i \in Axes : InLen(i) >= 1) =>
    /\ \A i \in Axes :
         /\ GridLength(grid, i) = CeilDiv(InLen(i), gridIn.step[i])
         /\ GridLength(grid, i) =
              Cardinality(Nodes(gridIn.box.front[i], gridIn.box.back[i], gridIn.step[i]))
    /\ GridSize(grid) =
         CeilDiv(InLen(1), gridIn.step[1]) * CeilDiv(InLen(2), gridIn.step[2])

\* C6: every grid reached from a construction with positive steps by
\* translations and negations has a strictly positive step along every axis
\* and a back congruent to its front modulo the step.
C6_StepStaysPositive ==
  gridOp # "none" =>
    \A i \in Axes :
      /\ grid.step[i] >= 1
      /\ (grid.box.back[i] - grid.box.front[i]) % grid.step[i] = 0

\* C7: the constructor keeps the front, lowers back[i] by
\* (length_i - 1) mod step[i], an amount in 0 .. step[i] - 1 (the back is never
\* raised), and leaves back[i] - front[i] a multiple of step[i].
C7_CtorTrimsBack ==
  gridOp = "ctor" =>
    /\ grid.box.front = gridIn.box.front
    /\ grid.step = gridIn.step
    /\ \A i \in Axes :
         /\ gridIn.box.back[i] - grid.box.back[i] = (InLen(i) - 1) % gridIn.step[i]
         /\ grid.box.back[i] <= gridIn.box.back[i]
         /\ gridIn.box.back[i] - grid.box.back[i] < gridIn.step[i]
         /\ (grid.box.back[i] - grid.box.front[i]) % gridIn.step[i] = 0

\* The same statement for boxes that are not empty: it holds, the empty box is
\* the only input that makes the constructor raise the back.
CtorTrimsBackOfNonEmptyBox ==
  (gridOp = "ctor" /\ \A i \in Axes : InLen(i) >= 1) =>
    /\ grid.box.front = gridIn.box.front
    /\ \A i \in Axes :
         /\ gridIn.box.back[i] - grid.box.back[i] = (InLen(i) - 1) % gridIn.step[i]
         /\ (grid.box.back[i] - grid.box.front[i]) % gridIn.step[i] = 0

(***************************************************************************)
(* MedianFilter.  The neighbours are copied to a vector v of size n; the   *)
(* values are even integers, so that the half sum of two of them is exact  *)
(* in every value type T.                                                  *)
(***************************************************************************)
MedValues == {2 * k : k \in 0..MaxMedVal}

MedInputs(maxLen) == UNION {[1..n -> MedValues] : n \in 1..maxLen}

Perms(n) == {f \in [1..n -> 1..n] : \A i, j \in 1..n : f[i] = f[j] => i = j}

\* std::nth_element(b, b + (k - 1), e) on v: the orders it may leave the
\* elements in. Position k holds the element a full sort would put there, and no
\* element before position k is greater than one at or after it; the rest of
\* the order is unspecified.
NthElement(v, k) ==
  {w \in {[i \in 1..Len(v) |-> v[f[i]]] : f \in Perms(Len(v))} :
     \A i \in 1..Len(v), j \in 1..Len(v) :
       /\ (i < k /\ j >= k) => w[i] <= w[j]
       /\ j > k => w[k] <= w[j]}

\* *(b + (k - 1)) on a vector of Len(w) elements: an element, or, one past the
\* end, whatever the memory after the buffer holds (g).
Deref(w, k, g) == IF k <= Len(w) THEN w[k] ELSE g

\* MedianFilter::operator()(neighbors): the values it may return, each with
\* whether an element outside the vector was read. n = b + size / 2 is
\* position k = size / 2 + 1 here; for size = 2, n + 1 is the end of the vector.
MedianFilter(v, g) ==
  LET size == Len(v)
      k == size \div 2 + 1
  IN  IF size % 2 = 1
      THEN {[out |-> w[k], oob |-> FALSE] : w \in NthElement(v, k)}
      ELSE UNION {
             {[out |-> (w2[k] + Deref(w2, k + 1, g)) \div 2, oob |-> k + 1 > size] :
                w2 \in IF k + 1 > size THEN {w1} ELSE NthElement(w1, k + 1)} :
             w1 \in NthElement(v, k)}

MedInit ==
  /\ medIn = <<>>
  /\ medOut = 0
  /\ medOob = FALSE
  /\ medOp = "none"

MedianApply ==
  /\ medOp = "none"
  /\ \E v \in MedInputs(MaxMedLen), g \in MedValues :
    \E r \in MedianFilter(v, g) :
      /\ medIn' = v
      /\ medOut' = r.out
      /\ medOob' = r.oob
      /\ medOp' = "median"
      /\ UNCHANGED notMedVars

MedNext == MedianApply

\* The r-th order statistic (0-based rank r) of v.
OrderStat(v, r) ==
  CHOOSE x \in {v[i] : i \in 1..Len(v)} :
    /\ Cardinality({i \in 1..Len(v) : v[i] < x}) <= r
    /\ Cardinality({i \in 1..Len(v) : v[i] <= x}) > r

\* C2: for n >= 1 neighbours MedianFilter returns the order statistic of rank
\* (n - 1) / 2 when n is odd and the average of those of ranks n / 2 - 1 and
\* n / 2 when n is even, and reads no element outside the n neighbours.
C2_MedianIsMiddle ==
  medOp = "median" =>
    /\ ~medOob
    /\ medOut = IF Len(medIn) % 2 = 1
                THEN OrderStat(medIn, (Len(medIn) - 1) \div 2)
                ELSE (OrderStat(medIn, Len(medIn) \div 2 - 1)
                      + OrderStat(medIn, Len(medIn) \div 2)) \div 2

\* For an odd number of neighbours the result is the middle order statistic.
MedianOfOddCount ==
  (medOp = "median" /\ Len(medIn) % 2 = 1) =>
    /\ ~medOob
    /\ medOut = OrderStat(medIn, (Len(medIn) - 1) \div 2)

(***************************************************************************)
(* Rasters: a shape and the values in storage order, the last axis varying *)
(* fastest.  A raster's domain is the box from 0 to shape - 1.             *)
(***************************************************************************)
RasterSize(shape) == IF shape[1] > 0 /\ shape[2] > 0 THEN shape[1] * shape[2] ELSE 0

RasterIndex(shape, p) == p[1] * shape[2] + p[2] + 1

RasterAt(r, p) == r.data[RasterIndex(r.shape, p)]

RasterDomain(r) == MkBox(<<0, 0>>, <<r.shape[1] - 1, r.shape[2] - 1>>)

Rasters(shape, values) == {[shape |-> shape, data |-> d] : d \in [1..RasterSize(shape) -> values]}

\* The positions of a box in iteration order.
BoxSeq(b) ==
  [k \in 1..RasterSize(BoxShape(b)) |->
     <<b.front[1] + ((k - 1) \div BoxLength(b, 2)),
       b.front[2] + ((k - 1) % BoxLength(b, 2))>>]

RECURSIVE SelectFlagged(_, _, _)
SelectFlagged(ps, flags, k) ==
  IF k > Len(ps) THEN <<>>
  ELSE (IF flags[k] THEN <<ps[k]>> ELSE <<>>) \o SelectFlagged(ps, flags, k + 1)

(***************************************************************************)
(* Structuring elements and the Boolean kernels.  A window is a Box or a   *)
(* Mask; iterating a Mask yields its flagged positions only.  Booleans are *)
(* the values 0 and 1 of the value type T.                                 *)
(***************************************************************************)
WindowOffsets(w) ==
  IF w.kind = "Box" THEN BoxSeq(w.box) ELSE SelectFlagged(BoxSeq(w.box), w.flags, 1)

\* The neighbours of pos: the values of the patch of the window translated by pos.
Neighbors(in, w, pos) ==
  LET offsets == WindowOffsets(w)
  IN  [k \in 1..Len(offsets) |-> RasterAt(in, PosAdd(pos, offsets[k]))]

SeqMin(v) == CHOOSE m \in {v[i] : i \in 1..Len(v)} : \A i \in 1..Len(v) : m <= v[i]

SeqMax(v) == CHOOSE m \in {v[i] : i \in 1..Len(v)} : \A i \in 1..Len(v) : m >= v[i]

\* MinimumFilter::operator()(neighbors), MaximumFilter::operator()(neighbors)
MinimumFilter(nb) == SeqMin(nb)

MaximumFilter(nb) == SeqMax(nb)

\* BinaryErosion::operator()(neighbors): std::all_of
BinaryErosion(nb) == IF \A i \in 1..Len(nb) : nb[i] # 0 THEN 1 ELSE 0

\* BinaryErosion::operator()(in, patch, pos): false at once where in[pos] is false
BinaryErosionAt(in, w, pos) ==
  IF RasterAt(in, pos) = 0 THEN 0 ELSE BinaryErosion(Neighbors(in, w, pos))

\* BinaryDilation::operator()(neighbors): std::any_of
BinaryDilation(nb) == IF \E i \in 1..Len(nb) : nb[i] # 0 THEN 1 ELSE 0

\* BinaryDilation::operator()(in, patch, pos): true at once where in[pos] is true
BinaryDilationAt(in, w, pos) ==
  IF RasterAt(in, pos) # 0 THEN 1 ELSE BinaryDilation(Neighbors(in, w, pos))

\* A patch whose translation is not undone.
PatchStays(patch, v) == patch

\* Patch::operator>>=(vector) and operator<<=(vector): the region of the patch
\* is translated by the vector and by its opposite; the raster is untouched.
PatchShiftRight(patch, v) == [patch EXCEPT !.box = BoxTranslate(@, v)]

PatchShiftLeft(patch, v) == [patch EXCEPT !.box = BoxTranslate(@, PosNeg(v))]

\* The values of a patch of a raster, with the positions they are read at.
PatchRead(in, patch) ==
  LET at == WindowOffsets(patch)
  IN  [at |-> at, values |-> [k \in 1..Len(at) |-> RasterAt(in, at[k])]]

\* A call operator()(in, patch, pos) that returns at once: the value
\* returned, the raster and the patch after the call, the positions read
\* through the patch and the translations applied to it.
ShortCircuit(in, patch, out) ==
  [out |-> out, in |-> in, patch |-> patch, reads |-> <<>>, shifts |-> <<>>]

\* The number of elements std::all_of (stop = 0) and std::any_of (stop = 1)
\* dereference: they return at the first element whose truth is stop, and
\* go through the whole range when there is none.
Dereferenced(values, stop) ==
  IF \E k \in 1..Len(values) : (IF values[k] # 0 THEN 1 ELSE 0) = stop
  THEN CHOOSE k \in 1..Len(values) :
         /\ (IF values[k] # 0 THEN 1 ELSE 0) = stop
         /\ \A j \in 1..(k - 1) : (IF values[j] # 0 THEN 1 ELSE 0) # stop
  ELSE Len(values)

\* The same call past the test of in[pos]: patch >>= pos, the kernel on the
\* patch, which reads it up to the neighbor that settles the result, and
\* patch <<= pos.
ShiftedCall(Kernel(_), stop, in, patch, pos) ==
  LET there == PatchShiftRight(patch, pos)
      nb == PatchRead(in, there)
  IN  [out |-> Kernel(nb.values), in |-> in, patch |-> PatchShiftLeft(there, pos),
       reads |-> SubSeq(nb.at, 1, Dereferenced(nb.values, stop)),
       shifts |-> <<pos, PosNeg(pos)>>]

\* BinaryErosion::operator()(in, patch, pos)
ErosionCall(in, patch, pos) ==
  IF RasterAt(in, pos) = 0 THEN ShortCircuit(in, patch, 0)
  ELSE ShiftedCall(BinaryErosion, 0, in, patch, pos)

\* BinaryDilation::operator()(in, patch, pos)
DilationCall(in, patch, pos) ==
  IF RasterAt(in, pos) # 0 THEN ShortCircuit(in, patch, 1)
  ELSE ShiftedCall(BinaryDilation, 1, in, patch, pos)

MorphShape == <<MorphW, MorphH>>

\* The boxes of offsets that fit in a raster of a given shape at some position.
OffsetBoxes(shape) ==
  {b \in {MkBox(<<f1, f2>>, <<b1, b2>>) :
            f1 \in -(shape[1] - 1)..(shape[1] - 1), b1 \in -(shape[1] - 1)..(shape[1] - 1),
            f2 \in -(shape[2] - 1)..(shape[2] - 1), b2 \in -(shape[2] - 1)..(shape[2] - 1)} :
     /\ BoxLength(b, 1) \in 1..shape[1]
     /\ BoxLength(b, 2) \in 1..shape[2]}

\* Box windows, and Mask windows with at least one flag set (the extremum of
\* no neighbour at all is not defined).
MorphWindows(shape) ==
  {[kind |-> "Box", box |-> b, flags |-> <<>>] : b \in OffsetBoxes(shape)}
  \cup UNION {{[kind |-> "Mask", box |-> b, flags |-> f] :
                 f \in {g \in [1..RasterSize(BoxShape(b)) -> BOOLEAN] :
                          \E k \in 1..RasterSize(BoxShape(b)) : g[k]}} :
              b \in OffsetBoxes(shape)}

HasZeroOffset(w) == \E k \in 1..Len(WindowOffsets(w)) : WindowOffsets(w)[k] = <<0, 0>>

NoMorphOut == [erosion |-> 0, erosionAt |-> 0, minimum |-> 0,
               dilation |-> 0, dilationAt |-> 0, maximum |-> 0]

MorphInit ==
  /\ morphIn = [shape |-> <<0, 0>>, data |-> <<>>]
  /\ morphWin = [kind |-> "Box", box |-> MkBox(<<0, 0>>, <<0, 0>>), flags |-> <<>>]
  /\ morphPos = <<0, 0>>
  /\ morphOut = NoMorphOut
  /\ morphPatch = <<>>
  /\ morphOp = "none"

\* One output position of the six filters on the same input and window. The
\* window translated by pos lies in the raster's domain.
MorphApply ==
  /\ morphOp = "none"
  /\ \E in \in Rasters(MorphShape, {0, 1}), w \in MorphWindows(MorphShape),
        pos \in (0..(MorphW - 1)) \X (0..(MorphH - 1)) :
    /\ BoxContains(RasterDomain(in), PosAdd(pos, w.box.front))
    /\ BoxContains(RasterDomain(in), PosAdd(pos, w.box.back))
    /\ morphIn' = in
    /\ morphWin' = w
    /\ morphPos' = pos
    /\ LET nb == Neighbors(in, w, pos)
       IN  morphOut' = [erosion |-> BinaryErosion(nb),
                        erosionAt |-> BinaryErosionAt(in, w, pos),
                        minimum |-> MinimumFilter(nb),
                        dilation |-> BinaryDilation(nb),
                        dilationAt |-> BinaryDilationAt(in, w, pos),
                        maximum |-> MaximumFilter(nb)]
    /\ morphOp' = "filter"
    /\ UNCHANGED morphPatch
    /\ UNCHANGED notMorphVars

MorphNext == MorphApply

PatchShape == <<MaxPatchW, MaxPatchH>>

\* A call Call(in, patch, pos) at one position, on a patch of the raster over
\* the window. The window translated by pos lies in the raster's domain.
MorphCall(Call(_, _, _), op) ==
  /\ morphOp = "none"
  /\ \E in \in Rasters(PatchShape, {0, 1}), w \in MorphWindows(PatchShape),
        pos \in (0..(MaxPatchW - 1)) \X (0..(MaxPatchH - 1)) :
    /\ BoxContains(RasterDomain(in), PosAdd(pos, w.box.front))
    /\ BoxContains(RasterDomain(in), PosAdd(pos, w.box.back))
    /\ morphIn' = in
    /\ morphWin' = w
    /\ morphPos' = pos
    /\ morphPatch' = Call(in, w, pos)
  /\ morphOp' = op
  /\ UNCHANGED morphOut
  /\ UNCHANGED notMorphVars

ErosionCallAt == MorphCall(ErosionCall, "erosion")

DilationCallAt == MorphCall(DilationCall, "dilation")

PatchNext == ErosionCallAt \/ DilationCallAt

\* C3: on a Boolean raster, for every structuring element and position,
\* BinaryErosion, its form (in, patch, pos) included, returns what
\* MinimumFilter returns on the same neighbours, and BinaryDilation what
\* MaximumFilter returns.
C3_MorphologyIsExtremum ==
  morphOp = "filter" =>
    /\ morphOut.erosion = morphOut.minimum
    /\ morphOut.erosionAt = morphOut.minimum
    /\ morphOut.dilation = morphOut.maximum
    /\ morphOut.dilationAt = morphOut.maximum

\* The forms taking the neighbours are the extrema, and so are the forms
\* (in, patch, pos) when the window holds the zero offset.
MorphologyIsExtremumAtCentredWindow ==
  morphOp = "filter" =>
    /\ morphOut.erosion = morphOut.minimum
    /\ morphOut.dilation = morphOut.maximum
    /\ HasZeroOffset(morphWin) =>
         /\ morphOut.erosionAt = morphOut.minimum
         /\ morphOut.dilationAt = morphOut.maximum

(***************************************************************************)
(* Mask: a box and a raster of flags.                                      *)
(***************************************************************************)
MkMask(b, f) == [box |-> b, flags |-> f]

Max(a, b) == IF a >= b THEN a ELSE b

Min(a, b) == IF a <= b THEN a ELSE b

\* Box::operator&=: the intersection, front and back clamped axis by axis.
BoxAnd(a, b) ==
  MkBox([i \in Axes |-> Max(a.front[i], b.front[i])],
        [i \in Axes |-> Min(a.back[i], b.back[i])])

\* Raster::operator()(region).copy(): the values of a region of the raster, as
\* a raster of the region's shape.
PatchCopy(r, region) ==
  LET positions == BoxSeq(region)
  IN  [shape |-> BoxShape(region),
       data |-> [k \in 1..Len(positions) |-> RasterAt(r, positions[k])]]

\* Mask::Mask(box, flag)
MaskFill(box, flag) ==
  MkMask(box, [shape |-> BoxShape(box),
               data |-> [k \in 1..RasterSize(BoxShape(box)) |-> flag]])

\* Mask::Mask(box, flags): the range is copied to the start of a raster of the
\* box's shape, whatever its length; the cells it does not reach keep the
\* value the raster is created with.
MaskFromRange(box, range) ==
  MkMask(box, [shape |-> BoxShape(box),
               data |-> [k \in 1..RasterSize(BoxShape(box)) |->
                           IF k <= Len(range) THEN range[k] ELSE FALSE]])

\* The elements std::copy writes after the last cell of the flags.
RangeOverrun(box, range) == Max(Len(range) - RasterSize(BoxShape(box)), 0)

\* Mask::size()
MaskSize(m) == Cardinality({k \in 1..Len(m.flags.data) : m.flags.data[k]})

\* Mask::operator[](position) const
MaskAt(m, p) == BoxContains(m.box, p) /\ RasterAt(m.flags, PosSub(p, m.box.front))

\* The cell of the flags that the non-const operator[](position) refers to:
\* m_flags[position - m_box.front()], with no test of the box.
MaskCell(m, p) == RasterIndex(m.flags.shape, PosSub(p, m.box.front))

\* Mask::operator[](position) = flag: the cell is written when it is one of
\* the storage of the flags, whether the position is in the box or not.
MaskSet(m, p, flag) ==
  IF MaskCell(m, p) \in 1..Len(m.flags.data)
  THEN [m EXCEPT !.flags.data[MaskCell(m, p)] = flag]
  ELSE m

\* The writes of operator[](position) = flag that land outside the storage.
SetOverrun(m, p) == IF MaskCell(m, p) \in 1..Len(m.flags.data) THEN 0 ELSE 1

\* operator&= with the front read after the box is clamped.
MaskClampFromNewFront(m, box) ==
  LET clamped == BoxAnd(m.box, box)
  IN  MkMask(clamped, PatchCopy(m.flags, BoxTranslate(clamped, PosNeg(clamped.front))))

\* operator&= that clamps the box and keeps the flags.
MaskClampBoxOnly(m, box) == MkMask(BoxAnd(m.box, box), m.flags)

\* Mask::operator&=(box)
MaskClamp(m, box) ==
  LET front == m.box.front
      clamped == BoxAnd(m.box, box)
  IN  MkMask(clamped, PatchCopy(m.flags, BoxTranslate(clamped, PosNeg(front))))

\* A translation that moves the front of the box and leaves the back.
MaskPlusFrontOnly(m, v) == MkMask(MkBox(PosAdd(m.box.front, v), m.box.back), m.flags)

\* Mask::operator+=(vector), operator-=(vector)
MaskPlus(m, v) == MkMask(BoxTranslate(m.box, v), m.flags)

MaskMinus(m, v) == MkMask(BoxTranslate(m.box, PosNeg(v)), m.flags)

\* The mirrored box over the flags in their original order.
MaskNegKeepsOrder(m) == MkMask(BoxNeg(m.box), m.flags)

\* Mask::operator-(): the mirrored box, the flags in reverse order
MaskNeg(m) ==
  MkMask(BoxNeg(m.box),
         [shape |-> m.flags.shape,
          data |-> [k \in 1..Len(m.flags.data) |->
                      m.flags.data[Len(m.flags.data) + 1 - k]]])

NoBox == MkBox(<<0, 0>>, <<0, 0>>)

NoMask == MkMask(NoBox, [shape |-> <<0, 0>>, data |-> <<>>])

NoArg == [box |-> NoBox, range |-> <<>>]

\* The boxes masks are built from: at the origin, of length 0..MaxMaskLen
\* along axis 0 and 0..2 along axis 1, the length 0 being the empty box.
MaskBoxes ==
  {MkBox(<<0, 0>>, <<l[1] - 1, l[2] - 1>>) : l \in (0..MaxMaskLen) \X (0..2)}

\* Flag ranges of up to one element more than the largest box holds.
FlagRanges(maxLen) == UNION {[1..n -> BOOLEAN] : n \in 0..maxLen}

\* The boxes masks are clamped to: they contain, cut or miss the masks' boxes.
ClampBoxes ==
  {b \in {MkBox(<<f1, f2>>, <<b1, b2>>) :
            f1 \in 0..1, b1 \in 0..1, f2 \in 0..1, b2 \in 0..1} :
     \A i \in Axes : BoxLength(b, i) >= 1}

\* The window of coordinates translations stay in.
MaskInRange(b) ==
  \A i \in Axes : b.front[i] \in -1..3 /\ b.back[i] \in -2..3

\* b to the power e
RECURSIVE Pow(_, _)
Pow(b, e) == IF e = 0 THEN 1 ELSE b * Pow(b, e - 1)

\* norm<P>(p): the number of coordinates that are not zero for P = 0, the
\* sum of the P-th powers of the magnitudes of the coordinates otherwise
Norm(P, p) ==
  IF P = 0 THEN Cardinality({i \in Axes : p[i] # 0})
  ELSE Pow(Abs(p[1]), P) + Pow(Abs(p[2]), P)

\* Mask::from_center(radius, center, flag)
MaskFromCenter(radius, center, flag) ==
  MaskFill(MkBox(PosSub(center, PosFill(radius)), PosAdd(center, PosFill(radius))), flag)

\* The conversion to Index of a double given in halves.
HalvesToIndex(radius2) == CDiv(radius2, 2)

\* norm<P>(p) <= std::pow(radius, P), the radius in halves
InBall(P, radius2, p) == Norm(P, p) * Pow(2, P) <= Pow(radius2, P)

\* Mask::ball<P>(radius, center) with < in place of <=
MaskBallStrict(P, radius2, center) ==
  LET out == MaskFromCenter(HalvesToIndex(radius2), center, FALSE)
      positions == BoxSeq(BoxTranslate(out.box, PosNeg(center)))
  IN  MkMask(out.box, [shape |-> out.flags.shape,
                       data |-> [k \in 1..Len(positions) |->
                                   Norm(P, positions[k]) * Pow(2, P) < Pow(radius2, P)]])

\* Mask::ball<P>(radius, center), the radius in halves: the flags, all false
\* at first, are visited along the positions of box - center.
MaskBall(P, radius2, center) ==
  LET out == MaskFromCenter(HalvesToIndex(radius2), center, FALSE)
      positions == BoxSeq(BoxTranslate(out.box, PosNeg(center)))
  IN  MkMask(out.box, [shape |-> out.flags.shape,
                       data |-> [k \in 1..Len(positions) |-> InBall(P, radius2, positions[k])]])

NoBall == [power |-> 0, radius2 |-> 0, center |-> <<0, 0>>]

BallCenters == {<<0, 0>>, <<1, 1>>, <<1, 0>>}

MaskInit ==
  /\ mask = NoMask
  /\ maskPrev = NoMask
  /\ maskArg = NoArg
  /\ maskBall = NoBall
  /\ maskShift = <<0, 0>>
  /\ maskOverrun = 0
  /\ maskThrown = FALSE
  /\ maskOp = "none"

MaskConstructFill ==
  /\ maskOp = "none"
  /\ \E b \in MaskBoxes, flag \in BOOLEAN :
       /\ mask' = MaskFill(b, flag)
       /\ maskArg' = [box |-> b, range |-> <<flag>>]
  /\ maskPrev' = NoMask
  /\ UNCHANGED <<maskBall, maskShift>>
  /\ maskOp' = "fill"
  /\ maskOverrun' = 0
  /\ UNCHANGED maskThrown
  /\ UNCHANGED notMaskVars

\* No statement of the constructor compares the range with the box.
MaskConstructRange ==
  /\ maskOp = "none"
  /\ \E b \in MaskBoxes, range \in FlagRanges(MaxMaskLen * 2 + 1) :
       /\ mask' = MaskFromRange(b, range)
       /\ maskArg' = [box |-> b, range |-> range]
       /\ maskOverrun' = RangeOverrun(b, range)
  /\ maskPrev' = NoMask
  /\ UNCHANGED <<maskBall, maskShift>>
  /\ maskOp' = "range"
  /\ UNCHANGED maskThrown
  /\ UNCHANGED notMaskVars

MaskConstructBall ==
  /\ maskOp = "none"
  /\ \E P \in 0..2, radius2 \in 0..MaxRadius2, center \in BallCenters :
       /\ mask' = MaskBall(P, radius2, center)
       /\ maskBall' = [power |-> P, radius2 |-> radius2, center |-> center]
  /\ maskPrev' = NoMask
  /\ maskOp' = "ball"
  /\ maskOverrun' = 0
  /\ UNCHANGED <<maskArg, maskShift, maskThrown>>
  /\ UNCHANGED notMaskVars

MaskStep(m, op, arg, shift) ==
  /\ MaskInRange(m.box)
  /\ mask' = m
  /\ maskPrev' = mask
  /\ maskArg' = arg
  /\ maskShift' = shift
  /\ maskBall' = NoBall
  /\ maskOp' = op
  /\ maskOverrun' = 0
  /\ UNCHANGED maskThrown
  /\ UNCHANGED notMaskVars

MaskPlusVec ==
  /\ maskOp # "none"
  /\ \E v \in Shifts : MaskStep(MaskPlus(mask, v), "translate", NoArg, v)

MaskMinusVec ==
  /\ maskOp # "none"
  /\ \E v \in Shifts : MaskStep(MaskMinus(mask, v), "translate", NoArg, PosNeg(v))

\* operator+=(Index) and operator-=(Index)
MaskPlusScalar ==
  /\ maskOp # "none"
  /\ \E s \in -1..1 : MaskStep(MaskPlus(mask, PosFill(s)), "translate", NoArg, PosFill(s))

MaskMinusScalar ==
  /\ maskOp # "none"
  /\ \E s \in -1..1 : MaskStep(MaskMinus(mask, PosFill(s)), "translate", NoArg, PosFill(-s))

\* operator++ and operator--
MaskIncr ==
  /\ maskOp # "none"
  /\ MaskStep(MaskPlus(mask, PosFill(1)), "translate", NoArg, PosFill(1))

MaskDecr ==
  /\ maskOp # "none"
  /\ MaskStep(MaskMinus(mask, PosFill(1)), "translate", NoArg, PosFill(-1))

\* m = -m
MaskNegate ==
  /\ maskOp # "none"
  /\ MaskStep(MaskNeg(mask), "negate", NoArg, <<0, 0>>)

\* m &= c
MaskClampTo ==
  /\ maskOp # "none"
  /\ \E c \in ClampBoxes :
       MaskStep(MaskClamp(mask, c), "clamp", [box |-> c, range |-> <<>>], <<0, 0>>)

\* The positions whose flag is set or unset: in the boxes of the masks, past
\* the end of a row and before the front.
MaskSetPositions == {<<0, 0>>, <<1, 0>>, <<0, 2>>, <<-1, 0>>}

\* m[p] = flag
MaskSetFlag ==
  /\ maskOp # "none"
  /\ \E p \in MaskSetPositions, flag \in BOOLEAN :
       /\ mask' = MaskSet(mask, p, flag)
       /\ maskArg' = [box |-> MkBox(p, p), range |-> <<flag>>]
       /\ maskOverrun' = SetOverrun(mask, p)
  /\ maskPrev' = mask
  /\ maskShift' = <<0, 0>>
  /\ maskBall' = NoBall
  /\ maskOp' = "set"
  /\ UNCHANGED maskThrown
  /\ UNCHANGED notMaskVars

MaskNext ==
  \/ MaskConstructFill
  \/ MaskConstructRange
  \/ MaskConstructBall
  \/ MaskPlusVec
  \/ MaskMinusVec
  \/ MaskPlusScalar
  \/ MaskMinusScalar
  \/ MaskIncr
  \/ MaskDecr
  \/ MaskNegate
  \/ MaskClampTo
  \/ MaskSetFlag

(***************************************************************************)
(* Claims on Mask.                                                         *)
(***************************************************************************)
\* The positions the claims look at: the window of coordinates and a margin.
Probes == (-3..4) \X (-3..4)

FlagsFitBox(m) ==
  /\ m.flags.shape = BoxShape(m.box)
  /\ Len(m.flags.data) = RasterSize(BoxShape(m.box))

\* C4: the mask clamped to a box c has the bounding box m.box() & c, flags of
\* the shape of that box, and is set at p exactly when m is set at p and p is
\* in c, whether c contains, cuts or misses m.box().
C4_ClampIsIntersection ==
  maskOp = "clamp" =>
    /\ mask.box = BoxAnd(maskPrev.box, maskArg.box)
    /\ FlagsFitBox(mask)
    /\ \A p \in Probes :
         MaskAt(mask, p) = (MaskAt(maskPrev, p) /\ BoxContains(maskArg.box, p))

\* A clamp that moves the front, keeps a set position and drops another.
C4_Witness ==
  /\ maskOp = "clamp"
  /\ mask.box.front # maskPrev.box.front
  /\ \E p \in Probes : MaskAt(mask, p)
  /\ \E p \in Probes : MaskAt(maskPrev, p) /\ ~MaskAt(mask, p)

\* C8: after any sequence of Mask operations the flags have the shape of the
\* box and size() is the number of positions set in the mask.
C8_FlagsShapeIsBoxShape ==
  maskOp # "none" =>
    /\ FlagsFitBox(mask)
    /\ MaskSize(mask) = Cardinality({p \in Probes : MaskAt(mask, p)})

\* A mask built from a flag range, then translated, negated and clamped to a
\* box that cuts it, with a flag still set.
C8_Witness ==
  /\ maskOp = "clamp"
  /\ mask.box # maskPrev.box
  /\ maskPrev.box.front[1] < 0
  /\ MaskSize(mask) >= 1
  /\ MaskSize(mask) < MaskSize(maskPrev)

\* C9: building a Mask from a box and a flag range whose length is not the
\* volume of the box fails at the call: no mask is produced and nothing is
\* written outside the flags.
C9_RangeMismatchFails ==
  (maskOp = "range" /\ Len(maskArg.range) # RasterSize(BoxShape(maskArg.box))) =>
    /\ maskThrown
    /\ maskOverrun = 0

(***************************************************************************)
(* Nearest interpolation.  A real coordinate is a number of tenths: 15 is  *)
(* 1.5 and -4 is -0.4, so that e + .5 is e + 5 tenths, exactly.            *)
(***************************************************************************)
\* The .5 of Nearest::at, in tenths; ten tenths make one.
Half == 5

Tenth == 2 * Half

\* The conversion of a double to Index: the fractional part is discarded.
ToIndex(tenths) == CDiv(tenths, Tenth)

\* The lambda of Nearest::at: e + .5, stored in a Position.
NearestIntegral(e) == ToIndex(e + Half)

\* raster[p] of the raster read: the value at p is p itself, so that two
\* reads give the same value only at the same position.
NearRaster(p) == p

\* Nearest::at(raster, Vector<double>)
NearestAt(position) ==
  NearRaster(<<NearestIntegral(position[1]), NearestIntegral(position[2])>>)

NearInit ==
  /\ nearPos = <<0, 0>>
  /\ nearIntegral = <<0, 0>>
  /\ nearOut = <<0, 0>>
  /\ nearOp = "none"

NearestApply ==
  /\ nearOp = "none"
  /\ \E position \in (-MaxTenths..MaxTenths) \X (-MaxTenths..MaxTenths) :
       /\ nearPos' = position
       /\ nearIntegral' = <<NearestIntegral(position[1]), NearestIntegral(position[2])>>
       /\ nearOut' = NearestAt(position)
  /\ nearOp' = "at"
  /\ UNCHANGED notNearVars

NearNext == NearestApply

\* The nearest integer of a number of tenths, ties away from zero.
RoundHalfAway(e) == IF e >= 0 THEN (e + Half) \div Tenth ELSE -((-e + Half) \div Tenth)

\* C5: Nearest interpolation at a fractional position rounds each coordinate
\* to the nearest integer, ties away from zero, for negative coordinates as
\* for the others, and returns the raster value at the rounded position.
C5_NearestRoundsHalfAway ==
  nearOp = "at" =>
    /\ \A i \in Axes : nearIntegral[i] = RoundHalfAway(nearPos[i])
    /\ nearOut = NearRaster(<<RoundHalfAway(nearPos[1]), RoundHalfAway(nearPos[2])>>)

\* On coordinates that are not negative the rounding is as claimed.
NearestRoundsNonNegative ==
  (nearOp = "at" /\ \A i \in Axes : nearPos[i] >= 0) =>
    nearOut = NearRaster(<<RoundHalfAway(nearPos[1]), RoundHalfAway(nearPos[2])>>)

(***************************************************************************)
(* Affinity<2>.  A double is held exactly.  The zeros, the infinities and  *)
(* NaN are the pairs <<0, 1>>, <<0, -1>>, <<1, 0>>, <<-1, 0>> and <<0, 0>>. *)
(* A finite double other than zero is n * 2^-k: the pair <<n, 2^k>> in     *)
(* lowest terms when n and 2^k are below 2^14, and otherwise the triple    *)
(* <<s, e, m>> of its sign, the exponent of its last bit and its 53-bit    *)
(* mantissa in digits of 14 bits, the lowest first.  Every operation gives *)
(* the exact result rounded to the nearest double, ties to even; the       *)
(* numbers of the model stay within the range of the exponent of a double. *)
(***************************************************************************)
\* F of the value of e: the operand is computed once, before the operation.
Bind(e, F(_)) == CHOOSE r \in {F(v) : v \in {e}} : TRUE

RECURSIVE GCD(_, _)
GCD(a, b) == IF b = 0 THEN a ELSE GCD(b, a % b)

Frac(n, d) ==
  Bind(<<n, d>>, LAMBDA p :
    Bind(GCD(Abs(p[1]), p[2]), LAMBDA g : <<p[1] \div g, p[2] \div g>>))

\* The base of the digits of a long natural number, and the bound of the
\* numbers held in a pair.
Limb == 2^14

\* The number of bits of the mantissa of a double.
MantissaBits == 53

\* A long natural number: its digits from the lowest, the last one not zero.
RECURSIVE NatLimbs(_)
NatLimbs(n) == IF n = 0 THEN <<>> ELSE <<n % Limb>> \o NatLimbs(n \div Limb)

RECURSIVE Trim(_)
Trim(a) == IF a = <<>> \/ a[Len(a)] # 0 THEN a ELSE Trim(SubSeq(a, 1, Len(a) - 1))

Digit(a, i) == IF i \in 1..Len(a) THEN a[i] ELSE 0

\* The digits of a sequence of columns, the carries taken from the i-th on.
RECURSIVE Carry(_, _, _)
Carry(cols, i, c) ==
  IF i > Len(cols) THEN NatLimbs(c)
  ELSE <<(cols[i] + c) % Limb>> \o Carry(cols, i + 1, (cols[i] + c) \div Limb)

\* The long number of a sequence of columns.
Carried(cols) == Bind(cols, LAMBDA v : Bind(Carry(v, 1, 0), LAMBDA a : Trim(a)))

LongAdd(a, b) ==
  Bind(<<a, b>>, LAMBDA p :
    Carried([i \in 1..(IF Len(p[1]) >= Len(p[2]) THEN Len(p[1]) ELSE Len(p[2])) |->
               Digit(p[1], i) + Digit(p[2], i)]))

\* a - b, for a >= b
LongSub(a, b) ==
  Bind(<<a, b>>, LAMBDA p : Carried([i \in 1..Len(p[1]) |-> p[1][i] - Digit(p[2], i)]))

RECURSIVE Column(_, _, _, _)
Column(a, b, k, i) ==
  IF i > Len(a) THEN 0 ELSE a[i] * Digit(b, k + 1 - i) + Column(a, b, k, i + 1)

\* a * b, for two numbers of four digits at most
LongMul(a, b) ==
  Bind(<<a, b>>, LAMBDA p :
    IF p[1] = <<>> \/ p[2] = <<>> THEN <<>>
    ELSE Carried([k \in 1..(Len(p[1]) + Len(p[2]) - 1) |-> Column(p[1], p[2], k, 1)]))

\* -1, 0 or 1 as a is below, equal to or above b, from the i-th digit down
RECURSIVE CompareFrom(_, _, _)
CompareFrom(a, b, i) ==
  IF i = 0 THEN 0
  ELSE IF a[i] # b[i] THEN (IF a[i] < b[i] THEN -1 ELSE 1)
  ELSE CompareFrom(a, b, i - 1)

LongCompare(a, b) ==
  Bind(<<a, b>>, LAMBDA p :
    IF Len(p[1]) # Len(p[2]) THEN (IF Len(p[1]) < Len(p[2]) THEN -1 ELSE 1)
    ELSE CompareFrom(p[1], p[2], Len(p[1])))

RECURSIVE BitLength(_)
BitLength(n) == IF n = 0 THEN 0 ELSE 1 + BitLength(n \div 2)

LimbBits == BitLength(Limb - 1)

LongBitLength(a) ==
  Bind(a, LAMBDA v : IF v = <<>> THEN 0 ELSE (Len(v) - 1) * LimbBits + BitLength(v[Len(v)]))

\* a * 2^k
ShiftLeft(a, k) ==
  Bind(<<a, k>>, LAMBDA p :
    IF p[1] = <<>> THEN <<>>
    ELSE [i \in 1..(p[2] \div LimbBits) |-> 0]
           \o Carry([i \in 1..Len(p[1]) |-> p[1][i] * 2^(p[2] % LimbBits)], 1, 0))

\* a / 2^k, rounded down
ShiftRight(a, k) ==
  Bind(<<a, k \div LimbBits, 2^(k % LimbBits)>>, LAMBDA p :
    IF p[2] >= Len(p[1]) THEN <<>>
    ELSE Bind(SubSeq(p[1], p[2] + 1, Len(p[1])), LAMBDA b :
           Carried([i \in 1..Len(b) |->
                      b[i] \div p[3] + (Digit(b, i + 1) % p[3]) * (Limb \div p[3])])))

RECURSIVE LowZeros(_)
LowZeros(n) == IF n % 2 = 1 THEN 0 ELSE 1 + LowZeros(n \div 2)

\* The number of zero bits that a long number other than zero ends with.
RECURSIVE TrailingZeros(_)
TrailingZeros(a) ==
  IF a[1] = 0 THEN LimbBits + TrailingZeros(Tail(a)) ELSE LowZeros(a[1])

RECURSIVE LongToInt(_)
LongToInt(a) == IF a = <<>> THEN 0 ELSE a[1] + Limb * LongToInt(Tail(a))

\* The digit d found so far is raised while a still fits in the remainder r.
RECURSIVE DivideFit(_, _)
DivideFit(a, s) ==
  IF LongCompare(s.r, a) >= 0
  THEN Bind([r |-> LongSub(s.r, a), d |-> s.d + 1], LAMBDA t : DivideFit(a, t))
  ELSE s

\* The bits of a long number from the 14 leading bits of a mantissa up.
LeadingBits(a) == LongToInt(ShiftRight(a, MantissaBits - LimbBits))

\* One digit of the long division by a mantissa a of 53 bits: the remainder
\* r, below a, is taken up by one digit; the leading bits tell a digit that
\* a fits in it, and DivideFit the digit itself.
DivideDigit(a, s) ==
  Bind(<<a, Trim(<<0>> \o s.r), s.q>>, LAMBDA t :
    Bind(LeadingBits(t[2]) \div (LeadingBits(t[1]) + 1), LAMBDA d :
      Bind(DivideFit(t[1], [r |-> LongSub(t[2], LongMul(t[1], NatLimbs(d))), d |-> d]),
           LAMBDA f : [r |-> f.r, q |-> <<f.d>> \o t[3]])))

\* The long division by a, n digits of it, from the remainder and the
\* quotient s.
RECURSIVE DivideDigits(_, _, _)
DivideDigits(a, n, s) ==
  IF n = 0 THEN s ELSE Bind(DivideDigit(a, s), LAMBDA t : DivideDigits(a, n - 1, t))

PosZero == <<0, 1>>

NegZero == <<0, -1>>

PosInf == <<1, 0>>

NegInf == <<-1, 0>>

NaN == <<0, 0>>

One == <<1, 1>>

\* The doubles held as a triple.
IsLong(x) == Len(x) = 3

IsNaN(x) == x = NaN

IsInf(x) == Bind(x, LAMBDA v : ~IsLong(v) /\ v[2] = 0 /\ v[1] # 0)

IsZero(x) == Bind(x, LAMBDA v : ~IsLong(v) /\ v[1] = 0 /\ v[2] # 0)

IsFinite(x) == Bind(x, LAMBDA v : IsLong(v) \/ v[2] # 0)

SignBit(x) ==
  Bind(x, LAMBDA v : IF IsLong(v) THEN v[1] < 0 ELSE IF v[1] = 0 THEN v[2] < 0 ELSE v[1] < 0)

Signed(neg, x) ==
  Bind(<<neg, x>>, LAMBDA p :
    IF p[1] = SignBit(p[2]) THEN p[2]
    ELSE IF IsLong(p[2]) THEN <<-p[2][1], p[2][2], p[2][3]>>
    ELSE IF p[2][1] = 0 THEN <<0, -p[2][2]>> ELSE <<-p[2][1], p[2][2]>>)

\* A finite double other than zero is Mantissa(x) * 2^Exponent(x), with its sign.
Mantissa(x) == Bind(x, LAMBDA v : IF IsLong(v) THEN v[3] ELSE NatLimbs(Abs(v[1])))

Exponent(x) == Bind(x, LAMBDA v : IF IsLong(v) THEN v[2] ELSE 1 - BitLength(v[2]))

\* The exponent of the bit above the first bit of x.
TopBit(x) == Bind(x, LAMBDA v : Exponent(v) + LongBitLength(Mantissa(v)))

\* The double of the odd number n times 2^e, as it is held: n of 53 bits at most.
Held(neg, n, e) ==
  Bind(<<IF neg THEN -1 ELSE 1, n, e, LimbBits + 1>>, LAMBDA p :
    Bind(LongBitLength(p[2]), LAMBDA bits :
      IF bits < p[4] /\ p[3] <= 0 /\ -p[3] < LimbBits
      THEN <<p[1] * LongToInt(p[2]), 2^(-p[3])>>
      ELSE IF bits + p[3] < p[4] /\ p[3] > 0
      THEN <<p[1] * LongToInt(p[2]) * 2^p[3], 1>>
      ELSE <<p[1], p[3] - (MantissaBits - bits), ShiftLeft(p[2], MantissaBits - bits)>>))

\* The double nearest to m * 2^e, m a long natural number other than zero,
\* ties to the even mantissa: r bits of m are dropped, q is what is left of
\* it, half tells the dropped bits from half a unit of q, and kept is q
\* rounded.
Rounded(neg, m, e) ==
  Bind(<<neg, m, e>>, LAMBDA p :
    Bind(IF LongBitLength(p[2]) > MantissaBits
           THEN LongBitLength(p[2]) - MantissaBits ELSE 0, LAMBDA r :
      Bind(ShiftRight(p[2], r), LAMBDA q :
        Bind(IF r = 0 THEN -1
             ELSE LongCompare(LongSub(p[2], ShiftLeft(q, r)), ShiftLeft(<<1>>, r - 1)),
             LAMBDA half :
          Bind(IF half + (q[1] % 2) > 0 THEN LongAdd(q, <<1>>) ELSE q, LAMBDA kept :
            Bind(TrailingZeros(kept), LAMBDA zeros :
              Held(p[1], ShiftRight(kept, zeros), p[3] + r + zeros)))))))

RNeg(x) == Bind(x, LAMBDA v : IF IsNaN(v) THEN NaN ELSE Signed(~SignBit(v), v))

RMul(x, y) ==
  Bind(<<x, y>>, LAMBDA p :
    IF IsNaN(p[1]) \/ IsNaN(p[2]) \/ (IsInf(p[1]) /\ IsZero(p[2])) \/ (IsZero(p[1]) /\ IsInf(p[2]))
    THEN NaN
    ELSE IF IsInf(p[1]) \/ IsInf(p[2]) THEN Signed(SignBit(p[1]) # SignBit(p[2]), PosInf)
    ELSE IF IsZero(p[1]) \/ IsZero(p[2]) THEN Signed(SignBit(p[1]) # SignBit(p[2]), PosZero)
    ELSE IF Signed(FALSE, p[2]) = One THEN Signed(SignBit(p[1]) # SignBit(p[2]), p[1])
    ELSE IF Signed(FALSE, p[1]) = One THEN Signed(SignBit(p[1]) # SignBit(p[2]), p[2])
    ELSE IF ~IsLong(p[1]) /\ ~IsLong(p[2]) /\ Abs(p[1][1] * p[2][1]) < Limb /\ p[1][2] * p[2][2] < Limb
    THEN Frac(p[1][1] * p[2][1], p[1][2] * p[2][2])
    ELSE Rounded(SignBit(p[1]) # SignBit(p[2]), LongMul(Mantissa(p[1]), Mantissa(p[2])),
                 Exponent(p[1]) + Exponent(p[2])))

\* x + y for two finite doubles other than zero: the one that is far above
\* the other, or the sum of the mantissas, brought to the lower exponent e.
FiniteAdd(x, y) ==
  Bind(<<x, y, TopBit(x) - TopBit(y)>>, LAMBDA p :
    IF p[3] > MantissaBits + 2 THEN p[1]
    ELSE IF -p[3] > MantissaBits + 2 THEN p[2]
    ELSE Bind(IF Exponent(p[1]) <= Exponent(p[2]) THEN Exponent(p[1]) ELSE Exponent(p[2]),
              LAMBDA e :
           Bind(<<ShiftLeft(Mantissa(p[1]), Exponent(p[1]) - e),
                  ShiftLeft(Mantissa(p[2]), Exponent(p[2]) - e)>>, LAMBDA m :
             Bind(LongCompare(m[1], m[2]), LAMBDA c :
               IF SignBit(p[1]) = SignBit(p[2]) THEN Rounded(SignBit(p[1]), LongAdd(m[1], m[2]), e)
               ELSE IF c = 0 THEN PosZero
               ELSE IF c > 0 THEN Rounded(SignBit(p[1]), LongSub(m[1], m[2]), e)
               ELSE Rounded(SignBit(p[2]), LongSub(m[2], m[1]), e)))))

IsSmall(x) == Bind(x, LAMBDA v : Abs(v[1]) < Limb /\ v[2] < Limb)

RAdd(x, y) ==
  Bind(<<x, y>>, LAMBDA p :
    IF IsNaN(p[1]) \/ IsNaN(p[2]) \/ (IsInf(p[1]) /\ IsInf(p[2]) /\ p[1] # p[2]) THEN NaN
    ELSE IF IsInf(p[1]) THEN p[1]
    ELSE IF IsInf(p[2]) THEN p[2]
    ELSE IF IsZero(p[1]) /\ IsZero(p[2])
    THEN (IF p[1] = NegZero /\ p[2] = NegZero THEN NegZero ELSE PosZero)
    ELSE IF IsZero(p[1]) THEN p[2]
    ELSE IF IsZero(p[2]) THEN p[1]
    ELSE IF ~IsLong(p[1]) /\ ~IsLong(p[2])
    THEN Bind(p[1][1] * p[2][2] + p[2][1] * p[1][2], LAMBDA n :
           IF n = 0 THEN PosZero
           ELSE Bind(Frac(n, p[1][2] * p[2][2]), LAMBDA f :
                  IF IsSmall(f) THEN f ELSE FiniteAdd(p[1], p[2])))
    ELSE FiniteAdd(p[1], p[2]))

RSub(x, y) == RAdd(x, RNeg(y))

\* |x|
RAbs(x) == Signed(FALSE, x)

\* x <= y, for two doubles whose difference is finite
RLessEq(x, y) == Bind(RSub(x, y), LAMBDA d : IsFinite(d) /\ (IsZero(d) \/ SignBit(d)))

\* The digits of the quotient that the long division makes after the first
\* bit: 56 bits.
QuotientDigits == (MantissaBits + LimbBits) \div LimbBits

\* x / y for two finite doubles other than zero: the mantissas are shifted
\* to 53 bits, and the quotient is rounded with the remainder as its last
\* bit.
FiniteDiv(x, y) ==
  Bind(<<x, y, MantissaBits - LongBitLength(Mantissa(x)),
         MantissaBits - LongBitLength(Mantissa(y))>>, LAMBDA p :
    Bind(ShiftLeft(Mantissa(p[2]), p[4]), LAMBDA a :
      Bind(DivideFit(a, [r |-> ShiftLeft(Mantissa(p[1]), p[3]), d |-> 0]), LAMBDA first :
        Bind(DivideDigits(a, QuotientDigits, [r |-> first.r, q |-> NatLimbs(first.d)]),
             LAMBDA s :
          Rounded(SignBit(p[1]) # SignBit(p[2]),
                  LongAdd(ShiftLeft(Trim(s.q), 1), IF s.r = <<>> THEN <<>> ELSE <<1>>),
                  (Exponent(p[1]) - p[3]) - (Exponent(p[2]) - p[4])
                    - LimbBits * QuotientDigits - 1)))))

\* x / y
RDiv(x, y) ==
  Bind(<<x, y>>, LAMBDA p :
    IF IsNaN(p[1]) \/ IsNaN(p[2]) \/ (IsInf(p[1]) /\ IsInf(p[2])) \/ (IsZero(p[1]) /\ IsZero(p[2]))
    THEN NaN
    ELSE IF IsInf(p[1]) \/ IsZero(p[2]) THEN Signed(SignBit(p[1]) # SignBit(p[2]), PosInf)
    ELSE IF IsZero(p[1]) \/ IsInf(p[2]) THEN Signed(SignBit(p[1]) # SignBit(p[2]), PosZero)
    ELSE IF ~IsLong(p[1]) /\ ~IsLong(p[2])
    THEN Bind(Frac(Abs(p[1][1]) * p[2][2], p[1][2] * Abs(p[2][1])), LAMBDA f :
           IF IsSmall(f) /\ f[2] = 2^(BitLength(f[2]) - 1)
           THEN Signed(SignBit(p[1]) # SignBit(p[2]), f) ELSE FiniteDiv(p[1], p[2]))
    ELSE FiniteDiv(p[1], p[2]))

\* 1. / x
RInv(x) == RDiv(One, x)

\* The operators on vectors, matrices and affinities take their operands by
\* value, as the functions of the code do: Bind evaluates each of them once.
VecAdd(u, v) == Bind(u, LAMBDA a : Bind(v, LAMBDA b : [i \in Axes |-> RAdd(a[i], b[i])]))

VecSub(u, v) == Bind(u, LAMBDA a : Bind(v, LAMBDA b : [i \in Axes |-> RSub(a[i], b[i])]))

MatNeg(m) == Bind(m, LAMBDA a : [i \in Axes |-> [j \in Axes |-> RNeg(a[i][j])]])

\* The sum of the products of a row u and a column v: u(0) * v(0) + u(1) * v(1)
RowTimesColumn(u, v) ==
  Bind(u, LAMBDA a : Bind(v, LAMBDA b :
    Bind([k \in Axes |-> RMul(a[k], b[k])], LAMBDA products : RAdd(products[1], products[2]))))

\* matrix * vector
MatVec(m, v) ==
  Bind(m, LAMBDA a : Bind(v, LAMBDA b : [i \in Axes |-> RowTimesColumn(a[i], b)]))

\* matrix * vector.asDiagonal()
MatDiag(m, v) ==
  Bind(m, LAMBDA a : Bind(v, LAMBDA b : [i \in Axes |-> [j \in Axes |-> RMul(a[i][j], b[j])]]))

\* m(0, 0) * m(1, 1) - m(1, 0) * m(0, 1)
Determinant(m) ==
  Bind(m, LAMBDA a :
    Bind([k \in Axes |-> RMul(a[k][1], a[3 - k][2])], LAMBDA products :
      RSub(products[1], products[2])))

\* m_map.inverse() of a fixed 2 x 2 matrix: the cofactors times 1 / determinant
EigenInverse(m) ==
  Bind(m, LAMBDA a : Bind(RInv(Determinant(a)), LAMBDA invdet :
    Bind(<<<<a[2][2], RNeg(a[1][2])>>, <<RNeg(a[2][1]), a[1][1]>>>>, LAMBDA cofactors :
      [i \in Axes |-> [j \in Axes |-> RMul(cofactors[i][j], invdet)]])))

Identity == <<<<One, PosZero>>, <<PosZero, One>>>>

ZeroVec == <<PosZero, PosZero>>

MkAffinity(map, translation, center) == [map |-> map, translation |-> translation, center |-> center]

\* Affinity(center)
AffinityCtor(center) == MkAffinity(Identity, ZeroVec, center)

\* A translation taken through the linear map before it is accumulated.
AffinityPlusThroughMap(a, vector) ==
  Bind(a, LAMBDA b : MkAffinity(b.map, VecAdd(b.translation, MatVec(b.map, vector)), b.center))

\* operator+=(vector)
AffinityPlus(a, vector) ==
  Bind(a, LAMBDA b : Bind(vector, LAMBDA v :
    IF \A i \in Axes : IsZero(v[i]) THEN b
    ELSE MkAffinity(b.map, VecAdd(b.translation, v), b.center)))

\* operator-=(vector)
AffinityMinus(a, vector) ==
  Bind(a, LAMBDA b : Bind(vector, LAMBDA v :
    IF \A i \in Axes : IsZero(v[i]) THEN b
    ELSE MkAffinity(b.map, VecSub(b.translation, v), b.center)))

\* operator+=(scalar) and operator-=(scalar): the value along all axes
AffinityPlusScalar(a, scalar) ==
  Bind(a, LAMBDA b : Bind(scalar, LAMBDA s :
    MkAffinity(b.map, VecAdd(b.translation, <<s, s>>), b.center)))

AffinityMinusScalar(a, scalar) ==
  Bind(a, LAMBDA b : Bind(scalar, LAMBDA s :
    MkAffinity(b.map, VecSub(b.translation, <<s, s>>), b.center)))

\* operator*=(value)
AffinityTimesScalar(a, value) ==
  Bind(a, LAMBDA b : Bind(value, LAMBDA s :
    MkAffinity(MatDiag(b.map, <<s, s>>), b.translation, b.center)))

\* operator*=(vector)
AffinityTimes(a, vector) ==
  Bind(a, LAMBDA b : Bind(vector, LAMBDA v :
    IF \A i \in Axes : v[i] = One THEN b
    ELSE MkAffinity(MatDiag(b.map, v), b.translation, b.center)))

\* operator/=(value)
AffinityOverScalar(a, value) == AffinityTimesScalar(a, RDiv(One, value))

\* operator/=(vector): the map times the diagonal of the inverses
AffinityOver(a, vector) ==
  Bind(a, LAMBDA b : Bind(vector, LAMBDA v :
    IF \A i \in Axes : v[i] = One THEN b
    ELSE MkAffinity(MatDiag(b.map, <<RDiv(One, v[1]), RDiv(One, v[2])>>),
                    b.translation, b.center)))

\* matrix * matrix
MatMul(m, r) ==
  Bind(m, LAMBDA a : Bind(r, LAMBDA b :
    [i \in Axes |-> [j \in Axes |-> RowTimesColumn(a[i], <<b[1][j], b[2][j]>>)]]))

\* m(i, j) = v
MatPut(m, i, j, v) == [m EXCEPT ![i][j] = v]

\* Linx::pi<double>(), the double nearest to pi: 0x1.921fb54442d18p+1
Pi == <<1, -51, <<11544, 4368, 8117, 1608>>>>

\* A quarter turn in radians, M_PI / 2: 0x1.921fb54442d18p+0
HalfPi == RDiv(Pi, <<2, 1>>)

\* The angle of the 3-4-5 triangle, std::atan2(4., 3.): 0x1.dac670561bb4fp-1
Atan43 == <<1, -53, <<15183, 5510, 1648, 1899>>>>

\* std::cos(angle) on the angles of AffAngles and their opposites, as the C
\* library returns it: 1 for a zero, 0x1.1a62633145c07p-54 for the quarter
\* turn and 0x1.3333333333334p-1 for the angle of the triangle.
StdCos(angle) ==
  Bind(angle, LAMBDA g :
    IF IsZero(g) THEN One
    ELSE IF Signed(FALSE, g) = HalfPi THEN <<1, -106, <<7175, 3153, 8803, 1129>>>>
    ELSE <<1, -53, <<13108, 3276, 13107, 1228>>>>)

\* std::sin(angle) on the same angles: the zero itself, 1 for the quarter
\* turn and 0x1.9999999999999p-1 for the angle of the triangle, with the sign
\* of the angle.
StdSin(angle) ==
  Bind(angle, LAMBDA g :
    IF IsZero(g) THEN g
    ELSE Signed(SignBit(g),
                IF Signed(FALSE, g) = HalfPi THEN One
                ELSE <<1, -53, <<6553, 9830, 6553, 1638>>>>))

\* rotateRadians(angle, from, to), the axes counted from 1: a zero of either
\* sign is no rotation, and the four entries are written in turn.
AffinityRotate(a, angle, from, to) ==
  Bind(a, LAMBDA b : Bind(angle, LAMBDA g :
    IF IsZero(g) THEN b
    ELSE Bind(StdSin(g), LAMBDA sin : Bind(StdCos(g), LAMBDA cos :
           LET r1 == MatPut(Identity, from, from, cos)
               r2 == MatPut(r1, from, to, RNeg(sin))
               r3 == MatPut(r2, to, from, sin)
               rotation == MatPut(r3, to, to, cos)
           IN MkAffinity(MatMul(b.map, rotation), b.translation, b.center)))))

\* Linx::pi<double>() / 180.
RadiansPerDegree == RDiv(Pi, <<180, 1>>)

\* rotateDegrees(angle, from, to)
AffinityRotateDegrees(a, angle, from, to) ==
  AffinityRotate(a, RMul(RadiansPerDegree, angle), from, to)

\* inverse() with the translation taken through the map before its inversion
AffinityInverseOldMap(a) ==
  Bind(a, LAMBDA b :
    MkAffinity(EigenInverse(b.map), MatVec(MatNeg(b.map), b.translation), b.center))

\* inverse(), the member
AffinityInverse(a) ==
  Bind(a, LAMBDA b : Bind(EigenInverse(b.map), LAMBDA inv :
    MkAffinity(inv, MatVec(MatNeg(inv), b.translation), b.center)))

\* operator()(in)
AffinityApply(a, in) ==
  Bind(a, LAMBDA b :
    VecAdd(VecAdd(b.translation, b.center), MatVec(b.map, VecSub(in, b.center))))

\* Linx::inverse(in)
Inverse(in) == AffinityInverse(in)

FromInt(k) == IF k = 0 THEN PosZero ELSE <<k, 1>>

\* the positions of out.domain(), in the order of the iteration
OutDomain == BoxSeq(MkBox(<<0, 0>>, <<AffOutLen - 1, AffOutLen - 1>>))

\* The raster that holds the output of transform(), and its domain.
OutShape == <<AffOutLen, AffOutLen>>

\* out: a raster, or a patch of it over box; no cell is written yet.
MkOut(box) ==
  [box |-> box,
   data |-> [k \in 1..RasterSize(OutShape) |-> <<>>],
   writes |-> [k \in 1..RasterSize(OutShape) |-> 0],
   log |-> <<>>]

\* The cell that the iterator of out points to after k - 1 increments from out.begin().
OutIteratorCellOfRaster(box, k) == k

OutIteratorCell(box, k) == RasterIndex(OutShape, BoxSeq(box)[k])

FromPosition(p) == <<FromInt(p[1]), FromInt(p[2])>>

\* The loop of transform(): *it = in(inv(p)); ++it; for the positions p of
\* domain from the k-th on, for an input that returns the position it is asked for.
RECURSIVE TransformLoop(_, _, _, _)
TransformLoop(inv, domain, k, out) ==
  IF k > Len(domain) THEN out
  ELSE Bind(OutIteratorCell(out.box, k), LAMBDA cell :
         Bind([out EXCEPT !.data[cell] = AffinityApply(inv, FromPosition(domain[k])),
                          !.writes[cell] = @ + 1,
                          !.log = Append(@, domain[k])],
              LAMBDA written : TransformLoop(inv, domain, k + 1, written)))

\* transform(in, out)
AffinityTransform(a, out) ==
  Bind(Inverse(a), LAMBDA inv : Bind(out, LAMBDA o :
    Bind(BoxSeq(o.box), LAMBDA domain : TransformLoop(inv, domain, 1, o))))

\* The boxes of the outputs: the domain of the raster, and those of its
\* patches up to its last corner.
OutBoxes ==
  {MkBox(f, <<AffOutLen - 1, AffOutLen - 1>>) : f \in (0..AffOutLen - 1) \X (0..AffOutLen - 1)}

NoOut == MkOut(NoBox)

\* The factors of the isotropic scalings: the two zeros, 2 and -1/2.
AffScalars == {PosZero, NegZero, <<2, 1>>, <<-1, 2>>}

\* The vectors of the translations and of the scalings.
AffVectors == {<<PosZero, PosZero>>, <<One, One>>, <<<<2, 1>>, PosZero>>, <<<<-1, 1>>, <<1, 2>>>>}

\* The centers: the origin, the default, and a point off the origin.
AffCenters == {<<PosZero, PosZero>>, <<<<-1, 1>>, <<1, 2>>>>}

\* The angles in radians: no turn, by either zero, and the angle of the
\* 3-4-5 triangle.
AffAngles == {PosZero, NegZero, Atan43}

\* The angles in degrees: no turn and a quarter turn.
AffDegrees == {PosZero, <<90, 1>>}

\* The scalars an affinity is translated by.
AffShifts == {One, <<-1, 2>>}

AffPoints == {<<PosZero, PosZero>>, <<One, PosZero>>, <<<<-1, 1>>, <<2, 1>>>>, <<<<1, 2>>, <<3, 1>>>>}

\* The conversion of a finite double to Index: the fractional part is discarded.
DoubleToIndex(x) ==
  Bind(x, LAMBDA v :
    IF IsLong(v)
    THEN (IF SignBit(v) THEN -1 ELSE 1)
           * LongToInt(IF v[2] >= 0 THEN ShiftLeft(v[3], v[2]) ELSE ShiftRight(v[3], -v[2]))
    ELSE CDiv(v[1], v[2]))

\* The lambda of Nearest::at on a double: e + .5, stored in a Position.
NearestIntegralBelow(x) == DoubleToIndex(RSub(x, <<1, 2>>))

NearestIntegralOf(x) == DoubleToIndex(RAdd(x, <<1, 2>>))

\* Nearest::at(raster, Vector<double>), called by the interpolator in(x)
InterpolateNearest(in, x) ==
  Bind(x, LAMBDA v : RasterAt(in, [i \in Axes |-> NearestIntegralOf(v[i])]))

\* The positions that a * in reads are finite and in the domain of in.
ReadsInDomain(a, in) ==
  Bind(AffinityTransform(a, MkOut(RasterDomain(in))), LAMBDA out :
    \A k \in 1..RasterSize(in.shape) :
      /\ \A i \in Axes :
           IsFinite(out.data[k][i]) /\ RLessEq(RAbs(out.data[k][i]), <<Limb - 1, 1>>)
      /\ BoxContains(RasterDomain(in), [i \in Axes |-> NearestIntegralOf(out.data[k][i])]))

\* operator*(in): a raster of the shape of in, filled by transform()
AffinityTimesRaster(a, in) ==
  Bind(AffinityTransform(a, MkOut(RasterDomain(in))), LAMBDA out :
    [shape |-> in.shape,
     data |-> [k \in 1..RasterSize(in.shape) |-> InterpolateNearest(in, out.data[k])]])

\* Rasters of values all different, counted up and counted down.
ResampleInputs(shape) ==
  {[shape |-> shape, data |-> [k \in 1..RasterSize(shape) |-> k]],
   [shape |-> shape, data |-> [k \in 1..RasterSize(shape) |-> 2 * (RasterSize(shape) - k)]]}

NoRaster == [shape |-> <<0, 0>>, data |-> <<>>]

NoAff == MkAffinity(<<>>, <<>>, <<>>)

AffInit ==
  /\ aff = NoAff
  /\ affPrev = NoAff
  /\ affInv = NoAff
  /\ affOut = NoOut
  /\ affThrown = FALSE
  /\ affOp = "none"
  /\ affSteps = 0
  /\ affIn = NoRaster
  /\ affRes = NoRaster

AffStep(a, op) ==
  /\ aff' = a
  /\ affPrev' = aff
  /\ affInv' = NoAff
  /\ affOut' = NoOut
  /\ affOp' = op
  /\ affSteps' = affSteps + 1
  /\ affIn' = NoRaster
  /\ affRes' = NoRaster
  /\ UNCHANGED affThrown
  /\ UNCHANGED notAffVars

AffConstruct ==
  /\ affOp = "none"
  /\ \E center \in AffCenters :
       /\ aff' = AffinityCtor(center)
       /\ affPrev' = NoAff
       /\ affOp' = "Affinity"
  /\ UNCHANGED <<affInv, affOut, affThrown, affSteps, affIn, affRes>>
  /\ UNCHANGED notAffVars

AffTranslate ==
  /\ affOp # "none" /\ affSteps < MaxAffOps
  /\ \E vector \in AffVectors : AffStep(AffinityPlus(aff, vector), "+=")

AffTranslateBack ==
  /\ affOp # "none" /\ affSteps < MaxAffOps
  /\ \E vector \in AffVectors : AffStep(AffinityMinus(aff, vector), "-=")

AffTranslateScalar ==
  /\ affOp # "none" /\ affSteps < MaxAffOps
  /\ \E scalar \in AffShifts : AffStep(AffinityPlusScalar(aff, scalar), "+=")

AffTranslateBackScalar ==
  /\ affOp # "none" /\ affSteps < MaxAffOps
  /\ \E scalar \in AffShifts : AffStep(AffinityMinusScalar(aff, scalar), "-=")

AffScale ==
  /\ affOp # "none" /\ affSteps < MaxAffOps
  /\ \E value \in AffScalars : AffStep(AffinityTimesScalar(aff, value), "*=")

AffScaleVector ==
  /\ affOp # "none" /\ affSteps < MaxAffOps
  /\ \E vector \in AffVectors : AffStep(AffinityTimes(aff, vector), "*=")

AffScaleInverse ==
  /\ affOp # "none" /\ affSteps < MaxAffOps
  /\ \E value \in AffScalars : AffStep(AffinityOverScalar(aff, value), "/=")

AffScaleInverseVector ==
  /\ affOp # "none" /\ affSteps < MaxAffOps
  /\ \E vector \in AffVectors : AffStep(AffinityOver(aff, vector), "/=")

AffRotate ==
  /\ affOp # "none" /\ affSteps < MaxAffOps
  /\ \E angle \in AffAngles : \E from \in Axes : \E to \in Axes :
       AffStep(AffinityRotate(aff, angle, from, to), "rotate")

AffRotateDegrees ==
  /\ affOp # "none" /\ affSteps < MaxAffOps
  /\ \E angle \in AffDegrees : \E from \in Axes : \E to \in Axes :
       AffStep(AffinityRotateDegrees(aff, angle, from, to), "rotate")

AffInvert ==
  /\ affOp # "none" /\ affSteps <= MaxAffOps
  /\ AffStep(AffinityInverse(aff), "inverse")

AffInverseOf ==
  /\ affOp # "none" /\ affSteps <= MaxAffOps
  /\ aff' = aff
  /\ affPrev' = aff
  /\ affInv' = Inverse(aff)
  /\ affOut' = NoOut
  /\ affOp' = "Linx::inverse"
  /\ affSteps' = affSteps + 1
  /\ affIn' = NoRaster
  /\ affRes' = NoRaster
  /\ UNCHANGED affThrown
  /\ UNCHANGED notAffVars

AffTransform ==
  /\ affOp # "none" /\ affSteps <= MaxAffOps
  /\ aff' = aff
  /\ affPrev' = aff
  /\ affInv' = NoAff
  /\ \E box \in OutBoxes : affOut' = AffinityTransform(aff, MkOut(box))
  /\ affOp' = "transform"
  /\ affSteps' = affSteps + 1
  /\ affIn' = NoRaster
  /\ affRes' = NoRaster
  /\ UNCHANGED affThrown
  /\ UNCHANGED notAffVars

AffResample ==
  /\ affOp # "none" /\ affSteps <= MaxAffOps
  /\ \E in \in ResampleInputs(OutShape) :
       /\ ReadsInDomain(aff, in)
       /\ affIn' = in
       /\ affRes' = AffinityTimesRaster(aff, in)
  /\ aff' = aff
  /\ affPrev' = aff
  /\ affInv' = NoAff
  /\ affOut' = NoOut
  /\ affOp' = "operator*"
  /\ affSteps' = affSteps + 1
  /\ UNCHANGED affThrown
  /\ UNCHANGED notAffVars

AffNext ==
  \/ AffConstruct
  \/ AffTranslate
  \/ AffTranslateBack
  \/ AffScale
  \/ AffScaleVector
  \/ AffScaleInverse
  \/ AffScaleInverseVector
  \/ AffRotate
  \/ AffRotateDegrees
  \/ AffInvert
  \/ AffInverseOf
  \/ AffTransform
  \/ AffResample

\* The construction and the builder calls alone.
BuildNext ==
  \/ AffConstruct
  \/ AffTranslate
  \/ AffTranslateBack
  \/ AffTranslateScalar
  \/ AffTranslateBackScalar
  \/ AffScale
  \/ AffScaleVector
  \/ AffScaleInverse
  \/ AffScaleInverseVector
  \/ AffRotate
  \/ AffRotateDegrees
  \/ AffInvert

\* A linear map of finite entries with no inverse.
IsSingular(map) ==
  /\ \A i \in Axes : \A j \in Axes : IsFinite(map[i][j])
  /\ IsZero(Determinant(map))

\* C10: the inversion of an affinity whose linear map is singular fails at
\* the call that makes it: inverse(), Linx::inverse() and transform() do not
\* return an affinity or fill an output.
C10_SingularInversionFails ==
  (affOp \in {"inverse", "Linx::inverse", "transform"} /\ IsSingular(affPrev.map)) => affThrown

\* The inverse of a map with an inverse is made of finite numbers.
InverseOfRegularMapIsFinite ==
  (affOp = "inverse" /\ \A i \in Axes : \A j \in Axes : IsFinite(affPrev.map[i][j])
     /\ ~IsZero(Determinant(affPrev.map))) =>
    \A i \in Axes : \A j \in Axes : IsFinite(aff.map[i][j])

\* Equality of doubles: NaN equals nothing, the two zeros are equal.
REq(x, y) == ~IsNaN(x) /\ ~IsNaN(y) /\ (x = y \/ (IsZero(x) /\ IsZero(y)))

VecEq(u, v) == \A i \in Axes : REq(u[i], v[i])

MatEq(m, r) == \A i \in Axes : \A j \in Axes : REq(m[i][j], r[i][j])

\* A linear map of finite entries with an inverse.
IsRegular(map) ==
  /\ \A i \in Axes : \A j \in Axes : IsFinite(map[i][j])
  /\ ~IsZero(Determinant(map))

\* inv undoes a on both sides, keeps its center, and holds a^-1 and -a^-1 * b.
IsInverseOf(inv, a) ==
  /\ \A x \in AffPoints :
       /\ VecEq(AffinityApply(inv, AffinityApply(a, x)), x)
       /\ VecEq(AffinityApply(a, AffinityApply(inv, x)), x)
  /\ inv.center = a.center
  /\ MatEq(MatMul(inv.map, a.map), Identity)
  /\ VecEq(inv.translation, MatVec(MatNeg(inv.map), a.translation))

\* C11, as stated: for every affinity A with a regular map, built from any
\* center by translations, scalings and rotations, and every point x,
\* inverse(A)(A(x)) and A(inverse(A)(x)) are equal to x; inverse() keeps the
\* center and sets the map to a^-1 and the translation to -a^-1 * b.
C11_InverseRoundTripExact ==
  /\ (affOp = "inverse" /\ IsRegular(affPrev.map)) => IsInverseOf(aff, affPrev)
  /\ (affOp = "Linx::inverse" /\ IsRegular(aff.map)) => IsInverseOf(affInv, aff)

\* The unit of the error allowed to a result of the arithmetic of doubles:
\* 2^-40, above the 2^-53 of one rounding.
Tolerance == <<1, -92, <<0, 0, 0, 1024>>>>

\* |v(0)| + |v(1)|, and the sum of the magnitudes of the entries of a matrix
VecSize(v) == Bind(v, LAMBDA a : RAdd(RAbs(a[1]), RAbs(a[2])))

MatSize(m) == Bind(m, LAMBDA a : RAdd(VecSize(a[1]), VecSize(a[2])))

\* x and y differ by bound at most
IsWithin(x, y, bound) == RLessEq(RAbs(RSub(x, y)), bound)

VecWithin(u, v, bound) == \A i \in Axes : IsWithin(u[i], v[i], bound)

MatWithin(m, r, bound) == \A i \in Axes : \A j \in Axes : IsWithin(m[i][j], r[i][j], bound)

\* The error that the roundings may leave in a * a^-1:
\* 2^-40 * (1 + |a|)^2 * (1 + |a^-1|)^2
InverseErrorBound(a, inv) ==
  Bind(RMul(RAdd(One, MatSize(a.map)), RAdd(One, MatSize(inv.map))), LAMBDA k :
    RMul(Tolerance, RMul(k, k)))

\* The same for a round trip from x: times 1 + |x| + |b| + |c|
RoundTripErrorBound(a, inv, x) ==
  RMul(InverseErrorBound(a, inv),
       RAdd(RAdd(One, VecSize(x)), RAdd(VecSize(a.translation), VecSize(a.center))))

\* inv undoes a on both sides within the error of the roundings, keeps its
\* center, and holds a^-1 within that error and -a^-1 * b.
IsNearInverseOf(inv, a) ==
  /\ \A x \in AffPoints : \A bound \in {RoundTripErrorBound(a, inv, x)} :
       /\ VecWithin(AffinityApply(inv, AffinityApply(a, x)), x, bound)
       /\ VecWithin(AffinityApply(a, AffinityApply(inv, x)), x, bound)
  /\ inv.center = a.center
  /\ MatWithin(MatMul(inv.map, a.map), Identity, InverseErrorBound(a, inv))
  /\ VecEq(inv.translation, MatVec(MatNeg(inv.map), a.translation))

\* C11, amended: inverse(A)(A(x)) and A(inverse(A)(x)) are equal to x within
\* the rounding of the arithmetic of doubles: no coordinate is off by more
\* than 2^-40 * (1 + |a|)^2 * (1 + |a^-1|)^2 * (1 + |x| + |b| + |c|), |.| the
\* sum of the magnitudes of the entries; inverse() keeps the center and sets
\* the map to a^-1 as the doubles give it and the translation to -a^-1 * b.
C11_InverseRoundTrip ==
  /\ (affOp = "inverse" /\ IsRegular(affPrev.map)) => IsNearInverseOf(aff, affPrev)
  /\ (affOp = "Linx::inverse" /\ IsRegular(aff.map)) => IsNearInverseOf(affInv, aff)

\* An inversion of an affinity that turns, moves, and is centred off the origin.
C11_Witness ==
  /\ affOp = "inverse"
  /\ IsRegular(affPrev.map)
  /\ ~IsZero(affPrev.map[1][2])
  /\ ~IsZero(affPrev.map[1][1])
  /\ \E i \in Axes : ~IsZero(affPrev.translation[i])
  /\ \E i \in Axes : ~IsZero(affPrev.center[i])
  /\ IsLong(affPrev.map[1][1])
  /\ IsNearInverseOf(aff, affPrev)
  /\ ~IsInverseOf(aff, affPrev)

\* C12: transform(in, out) assigns every position p of out.domain() exactly
\* once, in the iteration order of that domain, the value in(inverse(A)(p));
\* it writes no other cell of the raster that holds out, and leaves the
\* affinity as it was.
C12_TransformFillsOutputOnce ==
  affOp = "transform" =>
    /\ affOut.log = BoxSeq(affOut.box)
    /\ \E inv \in {Inverse(affPrev)} :
         \A p \in {affOut.log[k] : k \in 1..Len(affOut.log)} :
           /\ affOut.writes[RasterIndex(OutShape, p)] = 1
           /\ affOut.data[RasterIndex(OutShape, p)] = AffinityApply(inv, FromPosition(p))
    /\ \A q \in (0..AffOutLen - 1) \X (0..AffOutLen - 1) :
         ~BoxContains(affOut.box, q) =>
           /\ affOut.writes[RasterIndex(OutShape, q)] = 0
           /\ affOut.data[RasterIndex(OutShape, q)] = <<>>
    /\ aff = affPrev

\* A transform by a map that stretches and turns, into a patch that starts
\* off the origin and leaves cells of the raster out.
C12_Witness ==
  /\ affOp = "transform"
  /\ IsRegular(aff.map)
  /\ ~IsZero(aff.map[1][2])
  /\ ~REq(aff.map[1][1], aff.map[2][2])
  /\ affOut.box.front # <<0, 0>>
  /\ Len(affOut.log) > 1
  /\ \E k \in 1..RasterSize(OutShape) : affOut.writes[k] = 1

\* The map is the identity and the translation is zero.
IsIdentityAffinity(a) == MatEq(a.map, Identity) /\ VecEq(a.translation, ZeroVec)

\* C13: resampling a raster by an identity affinity (as constructed, or built
\* with zero translation, unit scale and zero rotation, around any center)
\* through Nearest interpolation yields the input at every position.
C13_IdentityResamplingIsInput ==
  (affOp = "operator*" /\ IsIdentityAffinity(aff)) => affRes = affIn

\* An identity built by calls around a center off the origin resamples a raster.
C13_Witness ==
  /\ affOp = "operator*"
  /\ IsIdentityAffinity(aff)
  /\ affSteps = MaxAffOps
  /\ \E i \in Axes : ~IsZero(aff.center[i])
  /\ affRes = affIn
  /\ affIn.data[1] # affIn.data[2]

(***************************************************************************)
(* Correlation and Convolution kernels on a sequence of neighbors.         *)
(***************************************************************************)
\* std::inner_product(first1, last1, first2, init) from the k-th pair on
RECURSIVE InnerProduct(_, _, _, _)
InnerProduct(a, b, k, init) ==
  IF k > Len(a) THEN init ELSE InnerProduct(a, b, k + 1, init + a[k] * b[k])

\* m_values.rbegin() .. m_values.rend()
Reversed(values) == [k \in 1..Len(values) |-> values[Len(values) + 1 - k]]

\* Correlation::operator()(neighbors)
Correlation(values, neighbors) == InnerProduct(values, neighbors, 1, 0)

\* Convolution::operator()(neighbors) without the reversal of the values
ConvolutionForward(values, neighbors) == InnerProduct(values, neighbors, 1, 0)

\* Convolution::operator()(neighbors)
Convolution(values, neighbors) == InnerProduct(Reversed(values), neighbors, 1, 0)

KerValues == -1..MaxKerVal

SeqsOfLen(values, n) == [1..n -> values]

KerInit ==
  /\ kerValues = <<>>
  /\ kerNeighbors = <<>>
  /\ kerOut = [correlation |-> 0, convolution |-> 0]
  /\ kerOp = "none"

KernelApply ==
  /\ kerOp = "none"
  /\ \E n \in 0..MaxKerLen : \E values \in SeqsOfLen(KerValues, n) : \E neighbors \in SeqsOfLen(KerValues, n) :
       /\ kerValues' = values
       /\ kerNeighbors' = neighbors
       /\ kerOut' = [correlation |-> Correlation(values, neighbors),
                     convolution |-> Convolution(values, neighbors)]
  /\ kerOp' = "apply"
  /\ UNCHANGED notKerVars

KerNext == KernelApply

\* The sum of w[i] * v[i] over the indices from k on.
RECURSIVE SumOfProducts(_, _, _)
SumOfProducts(w, v, k) == IF k > Len(w) THEN 0 ELSE w[k] * v[k] + SumOfProducts(w, v, k + 1)

\* The sum of w[n + 1 - i] * v[i] over the indices from k on.
RECURSIVE SumOfMirroredProducts(_, _, _)
SumOfMirroredProducts(w, v, k) ==
  IF k > Len(w) THEN 0 ELSE w[Len(w) + 1 - k] * v[k] + SumOfMirroredProducts(w, v, k + 1)

\* C14: for every weight sequence w and neighbour sequence v of the same
\* length, Convolution(w)(v) equals Correlation(reverse(w))(v), where
\* Correlation(w)(v) is the sum of w[i] * v[i] and Convolution(w)(v) is the
\* sum of w[n - 1 - i] * v[i].
C14_ConvolutionIsMirroredCorrelation ==
  kerOp = "apply" =>
    /\ kerOut.convolution = Correlation(Reversed(kerValues), kerNeighbors)
    /\ kerOut.correlation = SumOfProducts(kerValues, kerNeighbors, 1)
    /\ kerOut.convolution = SumOfMirroredProducts(kerValues, kerNeighbors, 1)

\* Weights that are not their own mirror, on which the two kernels differ.
C14_Witness ==
  /\ kerOp = "apply"
  /\ Len(kerValues) = MaxKerLen
  /\ Reversed(kerValues) # kerValues
  /\ kerOut.convolution # kerOut.correlation
  /\ kerOut.convolution = Correlation(Reversed(kerValues), kerNeighbors)

(***************************************************************************)
(* Filters: a kernel applied at every position of an output domain.  An    *)
(* image is a function from the positions of a box to values: a raster, a  *)
(* raster seen through its extrapolation, or an intermediate buffer.       *)
(***************************************************************************)
BoxSet(b) == (b.front[1]..b.back[1]) \X (b.front[2]..b.back[2])

\* The positions p + offset, for p in d and offset in w.
BoxSum(d, w) == MkBox(PosAdd(d.front, w.front), PosAdd(d.back, w.back))

\* The positions p with p + offset in d for every offset of w.
BoxShrink(d, w) == MkBox(PosSub(d.front, w.front), PosSub(d.back, w.back))

\* Constant::at(raster, position) with T{} in place of the value held
ConstantAtZero(raster, value, position) ==
  IF BoxContains(RasterDomain(raster), position) THEN RasterAt(raster, position) ELSE 0

\* Constant::at(raster, position)
ConstantAt(raster, value, position) ==
  IF BoxContains(RasterDomain(raster), position) THEN RasterAt(raster, position) ELSE value

MkView(kind, value) == [kind |-> kind, value |-> value]

\* The raster itself, read in its domain only.
RawView == MkView("raw", 0)

\* The values that the input gives at the positions of box.
ViewImage(in, view, box) ==
  [p \in BoxSet(box) |->
     IF view.kind = "Constant" THEN ConstantAt(in, view.value, p) ELSE RasterAt(in, p)]

MkKernel(kind, window, values) == [kind |-> kind, window |-> window, values |-> values]

\* The neighbors of p: the values at p + offset in the order of the window.
KernelNeighbors(img, window, p) ==
  LET offsets == BoxSeq(window) IN [k \in 1..Len(offsets) |-> img[PosAdd(p, offsets[k])]]

\* The operator() of the kernel
KernelValue(kernel, neighbors) ==
  IF kernel.kind = "correlation" THEN Correlation(kernel.values, neighbors)
  ELSE Convolution(kernel.values, neighbors)

\* SimpleFilter: the kernel at every position of the domain
SimpleFilter(kernel, img, domain) ==
  [p \in BoxSet(domain) |-> KernelValue(kernel, KernelNeighbors(img, kernel.window, p))]

\* FilterSeq of two filters: the first one into an intermediate buffer,
\* over the positions that the second one reads, then the second one.
FilterSeq(kernels, img, domain) ==
  LET buffer == SimpleFilter(kernels[1], img, BoxSum(domain, kernels[2].window))
  IN  SimpleFilter(kernels[2], buffer, domain)

\* The window of correlation_along<T, I0> and convolution_along<T, I0>:
\* front[I0] = -radius, back[I0] = size - radius - 1, the axes counted from 1
AlongWindow(size, axis) ==
  LET radius == size \div 2 IN
  MkBox([i \in Axes |-> IF i = axis THEN -radius ELSE 0],
        [i \in Axes |-> IF i = axis THEN size - radius - 1 ELSE 0])

\* The kernels all laid along the first of the axes
AlongSameAxis(kind, values, axes) ==
  [k \in 1..Len(axes) |-> MkKernel(kind, AlongWindow(Len(values), axes[1]), values)]

\* correlation_along<T, I0, Is...>(values), convolution_along<T, I0, Is...>(values)
Along(kind, values, axes) ==
  [k \in 1..Len(axes) |-> MkKernel(kind, AlongWindow(Len(values), axes[k]), values)]

\* The domain of the output: that of the raster if it is extrapolated, the
\* positions whose neighbors are in the raster otherwise.
OutputDomain(in, view, window) ==
  IF view.kind = "raw" THEN BoxShrink(RasterDomain(in), window) ELSE RasterDomain(in)

\* correlation_along<T, 0, 1>(values) * in, convolution_along<T, 0, 1>(values) * in
FilterAlong(kind, values, in, view) ==
  LET kernels == Along(kind, values, <<1, 2>>)
      window == BoxSum(kernels[1].window, kernels[2].window)
      domain == OutputDomain(in, view, window)
  IN  FilterSeq(kernels, ViewImage(in, view, BoxSum(domain, window)), domain)

\* correlation(values, window) * in, convolution(values, window) * in
FilterFull(kind, values, window, in, view) ==
  LET domain == OutputDomain(in, view, window)
  IN  SimpleFilter(MkKernel(kind, window, values), ViewImage(in, view, BoxSum(domain, window)), domain)

FilShape == <<MaxFilLen, 2>>

FilValues == {-1, 1, 2}

FilViews == {RawView, MkView("Constant", 0), MkView("Constant", 2)}

\* The rasters of zeros and ones with two ones at most, and the raster of ones.
FilRasters(shape) ==
  {r \in Rasters(shape, {0, 1}) :
     Cardinality({k \in 1..RasterSize(shape) : r.data[k] = 1}) \in {0, 1, 2, RasterSize(shape)}}

NoKernel == [kind |-> "none", values |-> <<>>]

\* std::accumulate(first, last, init) from the k-th value on
RECURSIVE Accumulate(_, _, _)
Accumulate(v, k, init) == IF k > Len(v) THEN init ELSE Accumulate(v, k + 1, RAdd(init, v[k]))

\* MeanFilter::operator()(neighbors), T = double
MeanFilter(neighbors) == RDiv(Accumulate(neighbors, 1, PosZero), FromInt(Len(neighbors)))

\* The values of the raster, as doubles, at the positions of window + p.
MeanNeighbors(in, value, window, p) ==
  LET offsets == WindowOffsets(window)
  IN  [k \in 1..Len(offsets) |-> FromInt(ConstantAt(in, value, PosAdd(p, offsets[k])))]

\* mean_filter<double>(window) * extrapolation<Constant>(in, value)
MeanFilterOf(in, value, window) ==
  [p \in BoxSet(RasterDomain(in)) |-> MeanFilter(MeanNeighbors(in, value, window, p))]

MeanShape == <<MaxFilLen, MaxFilLen>>

\* The box of radius 1 around the origin.
UnitRadiusBox == MkBox(<<-1, -1>>, <<1, 1>>)

BoxWindow(b) == [kind |-> "Box", box |-> b, flags |-> <<>>]

\* Boxes of one to four offsets next to the origin, the box of radius 1,
\* and the masks with a flag set over two of the boxes of four offsets.
MeanWindows ==
  {BoxWindow(b) : b \in OffsetBoxes(<<2, 2>>) \cup {UnitRadiusBox}}
  \cup {[kind |-> "Mask", box |-> b, flags |-> f] :
          b \in {MkBox(<<-1, -1>>, <<0, 0>>), MkBox(<<0, 0>>, <<1, 1>>)},
          f \in {g \in [1..4 -> BOOLEAN] : \E k \in 1..4 : g[k]}}

FilInit ==
  /\ filIn = NoRaster
  /\ filView = RawView
  /\ filKernel = NoKernel
  /\ filOut = [along |-> <<>>, full |-> <<>>, mean |-> <<>>]
  /\ filOp = "none"
  /\ filWindow = BoxWindow(NoBox)

\* The kernel of the product: the values w[i] * w[j] in the order of its window.
OuterProduct(values) ==
  LET n == Len(values) IN [k \in 1..n * n |-> values[((k - 1) \div n) + 1] * values[((k - 1) % n) + 1]]

FilterAlongApply ==
  /\ filOp = "none"
  /\ \E in \in FilRasters(FilShape) : \E view \in FilViews :
     \E n \in 1..MaxFilKer : \E values \in SeqsOfLen(FilValues, n) :
     \E kind \in {"correlation", "convolution"} :
       /\ filIn' = in
       /\ filView' = view
       /\ filKernel' = [kind |-> kind, values |-> values]
       /\ filOut' = [along |-> FilterAlong(kind, values, in, view),
                     full |-> FilterFull(kind, OuterProduct(values),
                                BoxSum(AlongWindow(n, 1), AlongWindow(n, 2)), in, view),
                     mean |-> <<>>]
  /\ filOp' = "along"
  /\ UNCHANGED filWindow
  /\ UNCHANGED notFilVars

MeanFilterApply ==
  /\ filOp = "none"
  /\ \E in \in FilRasters(MeanShape) : \E value \in {0, 1, -2} : \E window \in MeanWindows :
       /\ filIn' = in
       /\ filView' = MkView("Constant", value)
       /\ filWindow' = window
       /\ filOut' = [along |-> <<>>, full |-> <<>>, mean |-> MeanFilterOf(in, value, window)]
  /\ filOp' = "mean"
  /\ UNCHANGED filKernel
  /\ UNCHANGED notFilVars

\* The 1-D values of laplace_operator with the middle weight not negated.
LaplaceValuesSameSign(sign) == <<sign, sign * 2, sign>>

\* The 1-D values of laplace_operator: {sign, sign * -2, sign}
LaplaceValues(sign) == <<sign, sign * (-2), sign>>

\* std::plus over the values the filters give at p, from the k-th filter on.
RECURSIVE AggPlus(_, _, _, _)
AggPlus(kernels, img, p, k) ==
  IF k > Len(kernels) THEN 0
  ELSE KernelValue(kernels[k], KernelNeighbors(img, kernels[k].window, p))
       + AggPlus(kernels, img, p, k + 1)

\* FilterAgg(std::plus<T>(), filters...): every filter on the same input,
\* the values at each position added.
FilterAgg(kernels, img, domain) == [p \in BoxSet(domain) |-> AggPlus(kernels, img, p, 1)]

\* laplace_operator<T, Is...>(sign) * extrapolation(in): one
\* convolution_along<T, I>(values) per axis
LaplaceOperator(sign, axes, in, view) ==
  LET kernels == [k \in 1..Len(axes) |-> Along("convolution", LaplaceValues(sign), <<axes[k]>>)[1]]
      domain == RasterDomain(in)
  IN  FilterAgg(kernels, ViewImage(in, view, BoxSum(domain, UnitRadiusBox)), domain)

AxesLists == {<<1>>, <<2>>, <<1, 2>>, <<2, 1>>}

Signs == {1, -1, 2}

LaplaceApply ==
  /\ filOp = "none"
  /\ \E in \in FilRasters(FilShape) : \E c \in {0, 2} : \E sign \in Signs : \E axes \in AxesLists :
       /\ filIn' = in
       /\ filView' = MkView("Constant", c)
       /\ filKernel' = [kind |-> "laplace", values |-> LaplaceValues(sign), sign |-> sign, axes |-> axes]
       /\ filOut' = [agg |-> LaplaceOperator(sign, axes, in, MkView("Constant", c))]
  /\ filOp' = "laplace"
  /\ UNCHANGED filWindow
  /\ UNCHANGED notFilVars

\* The derivation values in the order the kernel reads them.
DerivationValuesMirrored(sign) == <<-sign, 0, sign>>

\* The values along the derivation axis: {sign, 0, -sign}
DerivationValues(sign) == <<sign, 0, -sign>>

\* The values along the averaging axes of prewitt_gradient, sobel_gradient
\* and scharr_gradient
AveragingValues(name) ==
  CASE name = "prewitt" -> <<1, 1, 1>>
    [] name = "sobel" -> <<1, 2, 1>>
    [] name = "scharr" -> <<3, 10, 3>>

\* prewitt_gradient<T, IDerivation, IAveraging>(sign) * extrapolation(in),
\* and the two others: derivation * averaging, a sequence of two filters
Gradient(name, sign, derivation, averaging, in, view) ==
  LET kernels == <<Along("convolution", DerivationValues(sign), <<derivation>>)[1],
                   Along("convolution", AveragingValues(name), <<averaging>>)[1]>>
      window == BoxSum(kernels[1].window, kernels[2].window)
      domain == RasterDomain(in)
  IN  FilterSeq(kernels, ViewImage(in, view, BoxSum(domain, window)), domain)

GradientNames == {"prewitt", "sobel", "scharr"}

GradientApply ==
  /\ filOp = "none"
  /\ \E in \in FilRasters(FilShape) : \E c \in {0, 2} : \E sign \in Signs :
     \E name \in GradientNames : \E d \in Axes : \E a \in Axes :
       /\ filIn' = in
       /\ filView' = MkView("Constant", c)
       /\ filKernel' = [kind |-> name, values |-> AveragingValues(name), sign |-> sign,
                        derivation |-> d, averaging |-> a]
       /\ filOut' = [gradient |-> Gradient(name, sign, d, a, in, MkView("Constant", c)),
                     opposite |-> Gradient(name, -sign, d, a, in, MkView("Constant", c))]
  /\ filOp' = "gradient"
  /\ UNCHANGED filWindow
  /\ UNCHANGED notFilVars

FilNext == FilterAlongApply \/ MeanFilterApply \/ LaplaceApply \/ GradientApply

\* C15: the filter that correlation_along / convolution_along builds as a
\* sequence of 1-D kernels along the two axes gives, at every position of
\* every raster, the value of the single 2-D correlation / convolution by
\* the outer product of the 1-D kernels.
C15_SeparableIsOuterProduct ==
  filOp = "along" => filOut.along = filOut.full

\* A convolution by weights that are not their own mirror, on an
\* extrapolated raster, with values that are not all the same.
C15_Witness ==
  /\ filOp = "along"
  /\ filKernel.kind = "convolution"
  /\ Len(filKernel.values) = MaxFilKer
  /\ Reversed(filKernel.values) # filKernel.values
  /\ filView = MkView("Constant", 2)
  /\ filOut.along = filOut.full
  /\ \E p \in DOMAIN filOut.along : \E q \in DOMAIN filOut.along : filOut.along[p] # filOut.along[q]

\* The sum of the values of the raster at the positions p + offset from the
\* k-th offset on, a position out of the domain counting for c.
RECURSIVE SumAround(_, _, _, _, _)
SumAround(in, c, offsets, p, k) ==
  IF k > Len(offsets) THEN 0
  ELSE (IF BoxContains(RasterDomain(in), PosAdd(p, offsets[k]))
          THEN RasterAt(in, PosAdd(p, offsets[k])) ELSE c)
       + SumAround(in, c, offsets, p, k + 1)

\* The quotient n / d of integers, d > 0, as a double.
Quotient(n, d) == RDiv(FromInt(n), FromInt(d))

\* C16: a mean filter over a window W on a raster seen through Constant(c)
\* gives at every position p the arithmetic mean over the |W| positions of
\* the window around p, those out of the domain counting for c: the double
\* nearest to the sum divided by |W|.
C16_MeanWithConstant ==
  filOp = "mean" =>
    \A p \in BoxSet(RasterDomain(filIn)) :
      REq(filOut.mean[p],
          Quotient(SumAround(filIn, filView.value, WindowOffsets(filWindow), p, 1),
                   Len(WindowOffsets(filWindow))))

\* The 3 x 3 raster of ones, window of radius 1, Constant(0): 1 in the
\* middle and 4/9 in the corner, the double 0.4444444444444444.
C16_Witness ==
  /\ filOp = "mean"
  /\ filIn = [shape |-> <<3, 3>>, data |-> [k \in 1..9 |-> 1]]
  /\ filWindow = BoxWindow(UnitRadiusBox)
  /\ filView = MkView("Constant", 0)
  /\ filOut.mean[<<1, 1>>] = One
  /\ filOut.mean[<<0, 0>>] = <<1, -54, <<1820, 12743, 7281, 1820>>>>

\* C17: ball<P>(radius, center), for a radius that is not negative, has the
\* bounding box of the positions within the radius of the center along each
\* axis, and flags a position of the box exactly when norm<P>(p - center) is
\* at most radius^P; ball<2>(1) around (0,0) is a 3 x 3 box with its centre
\* and four edge neighbours flagged, the corners not.
C17_BallIsNormBall ==
  maskOp = "ball" =>
    LET c == maskBall.center
        reach == maskBall.radius2 \div 2
    IN  /\ mask.box = MkBox(<<c[1] - reach, c[2] - reach>>, <<c[1] + reach, c[2] + reach>>)
        /\ \A p \in Probes :
             MaskAt(mask, p) <=>
               /\ BoxContains(mask.box, p)
               /\ Norm(maskBall.power, PosSub(p, c)) * Pow(2, maskBall.power)
                    <= Pow(maskBall.radius2, maskBall.power)
        /\ (maskBall = [power |-> 2, radius2 |-> 2, center |-> <<0, 0>>]) =>
             /\ MaskSize(mask) = 5
             /\ \A p \in {<<-1, -1>>, <<-1, 1>>, <<1, -1>>, <<1, 1>>} : ~MaskAt(mask, p)
             /\ \A p \in {<<0, 0>>, <<-1, 0>>, <<1, 0>>, <<0, -1>>, <<0, 1>>} : MaskAt(mask, p)

\* ball<2>(1) around (0,0): five flags in a box of nine positions.
C17_Witness ==
  /\ maskOp = "ball"
  /\ maskBall = [power |-> 2, radius2 |-> 2, center |-> <<0, 0>>]
  /\ BoxShape(mask.box) = <<3, 3>>
  /\ MaskSize(mask) = 5

\* C18: after m = -m the flag of every position p is the flag the mask had
\* at -p, the box is the mirrored box and the flags are the same sequence read
\* backwards; the operand is a copy, so the mask before is what it was, and
\* negating the result gives it back.
C18_NegationMirrors ==
  maskOp = "negate" =>
    /\ \A p \in Probes : MaskAt(mask, p) <=> MaskAt(maskPrev, PosNeg(p))
    /\ mask.box = BoxNeg(maskPrev.box)
    /\ mask.flags.shape = maskPrev.flags.shape
    /\ mask.flags.data = Reversed(maskPrev.flags.data)
    /\ MaskNeg(mask) = maskPrev

\* A negated mask whose box is not centred on the origin and whose flags do
\* not read the same backwards.
C18_Witness ==
  /\ maskOp = "negate"
  /\ Len(maskPrev.flags.data) >= 4
  /\ maskPrev.flags.data # Reversed(maskPrev.flags.data)
  /\ maskPrev.box # BoxNeg(maskPrev.box)
  /\ \E p \in Probes : MaskAt(mask, p) /\ ~MaskAt(maskPrev, p)

(***************************************************************************)
(* Translations of Mask and Grid.                                          *)
(***************************************************************************)
\* A run works on a grid or on a mask.
RegionNext ==
  \/ maskOp = "none" /\ GridNext
  \/ gridOp = "none" /\ MaskNext

\* The positions of a box and those next to it.
Around(b) ==
  ((b.front[1] - 1)..(b.back[1] + 1)) \X ((b.front[2] - 1)..(b.back[2] + 1))

\* A step m += v, m -= v, ++m or --m, maskShift' being the vector the box is
\* moved by: both corners move by it, the flags stay, the flag at p + v is the
\* flag that was at p, and the opposite translation gives the mask before.
MaskTranslationFrame ==
  maskOp' = "translate" =>
    /\ mask'.box.front = PosAdd(mask.box.front, maskShift')
    /\ mask'.box.back = PosAdd(mask.box.back, maskShift')
    /\ mask'.flags = mask.flags
    /\ \A p \in Around(mask.box) : MaskAt(mask', PosAdd(p, maskShift')) <=> MaskAt(mask, p)
    /\ MaskMinus(mask', maskShift') = mask
    /\ MaskPlus(mask', PosNeg(maskShift')) = mask

\* A step g += v, g -= v, ++g or --g, v being the vector the front is moved
\* by: it is the argument of += (the opposite of the argument of -=), the back
\* moves by it too, the step of the grid stays, and the opposite translation
\* gives the grid before.
GridTranslationFrame ==
  gridOp' = "translate" =>
    LET v == PosSub(grid'.box.front, grid.box.front)
    IN  /\ v \in Shifts
        /\ grid' = GridPlus(grid, v)
        /\ grid' = GridMinus(grid, PosNeg(v))
        /\ grid'.box.back = PosAdd(grid.box.back, v)
        /\ grid'.step = grid.step
        /\ GridMinus(grid', v) = grid
        /\ GridPlus(grid', PosNeg(v)) = grid

\* C19: a translation of a Mask or of a Grid by a position or a scalar moves
\* the bounding box and nothing else: the flags of the mask and the step of
\* the grid are unchanged, (m + v)[p + v] = m[p] at every position p, and the
\* translation by v followed by the translation by -v gives the value before.
C19_TranslationMovesBoxOnly == [][MaskTranslationFrame /\ GridTranslationFrame]_vars

\* A mask with flags set and unset, moved along both axes.
C19_Witness ==
  /\ maskOp = "translate"
  /\ maskShift[1] # 0
  /\ maskShift[2] # 0
  /\ MaskSize(mask) > 0
  /\ MaskSize(mask) < Len(mask.flags.data)
  /\ mask.flags = maskPrev.flags
  /\ \E p \in Probes : MaskAt(mask, p) /\ ~MaskAt(maskPrev, p)

(***************************************************************************)
(* Periodic extrapolation.                                                 *)
(***************************************************************************)
\* The lambda of Periodic::at with % alone, the remainder C++ gives: it has
\* the sign of p.
TruncatedModulo(p, s) == CRem(p, s)

\* The lambda of Periodic::at: q = p % s, and q + s when q is negative.
PositiveModulo(p, s) ==
  LET q == CRem(p, s) IN IF q < 0 THEN q + s ELSE q

\* position.apply(lambda, raster.shape()): each coordinate with its length
PeriodicPosition(raster, position) ==
  [i \in Axes |-> PositiveModulo(position[i], raster.shape[i])]

\* raster[position]: the value stored there, any value when the position is
\* outside of the raster.
RasterReads(raster, position) ==
  IF \A i \in Axes : position[i] >= 0 /\ position[i] < raster.shape[i]
  THEN {RasterAt(raster, position)}
  ELSE 0..(MaxPerLen * MaxPerLen)

\* Periodic::at(raster, position): the values the call can return
PeriodicAt(raster, position) == RasterReads(raster, PeriodicPosition(raster, position))

\* Rasters of 1..MaxPerLen positions along each axis; the value of a cell is
\* its rank in the storage, so that two cells never hold the same value.
PerRaster(shape) == [shape |-> shape, data |-> [k \in 1..(shape[1] * shape[2]) |-> k]]

PerShapes == (1..MaxPerLen) \X (1..MaxPerLen)

PerPositions == (-MaxPerPos..MaxPerPos) \X (-MaxPerPos..MaxPerPos)

PerInit ==
  /\ perIn = PerRaster(<<1, 1>>)
  /\ perPos = <<0, 0>>
  /\ perOut = [position |-> <<0, 0>>, value |-> 0]
  /\ perOp = "none"

PeriodicApply ==
  /\ perOp = "none"
  /\ \E shape \in PerShapes, position \in PerPositions :
       /\ perIn' = PerRaster(shape)
       /\ perPos' = position
       /\ \E value \in PeriodicAt(PerRaster(shape), position) :
            perOut' = [position |-> PeriodicPosition(PerRaster(shape), position),
                       value |-> value]
  /\ perOp' = "at"
  /\ UNCHANGED notPerVars

PerNext == PeriodicApply

\* C20: Periodic::at reads the raster at the position q whose coordinates are
\* in [0, shape[i]) and congruent to those of the position asked modulo
\* shape[i], whatever the sign of the position asked; a position of the
\* domain is read as it is.
C20_PeriodicWrapsModulo ==
  perOp = "at" =>
    LET q == perOut.position IN
    /\ \A i \in Axes :
         /\ q[i] >= 0
         /\ q[i] < perIn.shape[i]
         /\ (q[i] - perPos[i]) % perIn.shape[i] = 0
    /\ perOut.value = RasterAt(perIn, q)
    /\ (\A i \in Axes : perPos[i] >= 0 /\ perPos[i] < perIn.shape[i]) => q = perPos

\* A position negative along both axes, more than one period away along the
\* second and not a multiple of the length along either.
C20_Witness ==
  /\ perOp = "at"
  /\ perIn.shape = <<3, 2>>
  /\ perPos = <<-1, -5>>
  /\ perOut.position = <<2, 1>>
  /\ perOut.value = RasterAt(perIn, <<2, 1>>)

(***************************************************************************)
(* Filters built from a raster of weights.                                 *)
(***************************************************************************)
\* (values.shape() - 1) / 2 with the quotient rounded away from zero.
CenteredOriginUp(shape) == [i \in Axes |-> CDiv(shape[i], 2)]

\* (values.shape() - 1) / 2: the integer division of each coordinate
CenteredOrigin(shape) == [i \in Axes |-> CDiv(shape[i] - 1, 2)]

\* values.domain() - (values.shape() - 1) / 2
CenteredWindow(values) ==
  BoxTranslate(RasterDomain(values), PosNeg(CenteredOrigin(values.shape)))

\* convolution(values) and correlation(values): values.data() up to the size
\* of the window, over the centered window
CenteredKernel(kind, values) ==
  LET window == CenteredWindow(values)
  IN  MkKernel(kind, window, SubSeq(values.data, 1, RasterSize(BoxShape(window))))

\* The raster of a shape whose cells hold their rank in the storage.
RankRaster(shape) == [shape |-> shape, data |-> [k \in 1..RasterSize(shape) |-> k]]

WtShapes == (1..MaxWtLen) \X (1..MaxWtLen)

NoFilter == MkKernel("none", NoBox, <<>>)

WtInit ==
  /\ wtValues = NoRaster
  /\ wtIn = NoRaster
  /\ wtKernel = NoFilter
  /\ wtSparse = NoFilter
  /\ wtOut = <<>>
  /\ wtOp = "none"

\* convolution(values) or correlation(values) is built.
WtCentered ==
  /\ wtOp = "none"
  /\ \E shape \in WtShapes : \E kind \in {"correlation", "convolution"} :
       /\ wtValues' = RankRaster(shape)
       /\ wtKernel' = CenteredKernel(kind, RankRaster(shape))
  /\ wtOp' = "centered"
  /\ UNCHANGED <<wtIn, wtSparse, wtOut>>
  /\ UNCHANGED notWtVars

\* auto reversed = values; std::reverse(reversed.begin(), reversed.end())
ReversedRaster(values) == [shape |-> values.shape, data |-> Reversed(values.data)]

\* Mask<N> mask(values.domain() - (values.shape() - 1) / 2, reversed): the
\* flag of a cell is set when the reversed weight of its rank is not zero
SparseMask(values) ==
  MaskFromRange(CenteredWindow(values),
                [k \in 1..Len(values.data) |-> ReversedRaster(values).data[k] # 0])

\* The positions a mask is iterated over: the flagged ones, in the order of
\* its box.
MaskPositions(m) == SelectFlagged(BoxSeq(m.box), m.flags.data, 1)

\* reversed(mask): the cells of the raster at the positions of the mask,
\* taken as positions of the raster; a cell outside of the raster reads as
\* any value.
PatchValues(raster, m, outside) ==
  LET ps == MaskPositions(m)
  IN  [k \in 1..Len(ps) |->
         IF BoxContains(RasterDomain(raster), ps[k]) THEN RasterAt(raster, ps[k]) ELSE outside]

\* sparse_convolution(values): a Convolution over the mask, its values
\* those of reversed(mask)
SparseConvolution(values, outside) ==
  LET m == SparseMask(values)
  IN  [kind |-> "convolution",
       window |-> [kind |-> "Mask", box |-> m.box, flags |-> m.flags.data],
       values |-> PatchValues(ReversedRaster(values), m, outside),
       reads |-> MaskPositions(m)]

\* sparse_convolution(values) * extrapolation<Constant>(in, 0)
SparseFilter(sparse, in) ==
  LET domain == RasterDomain(in)
      img == ViewImage(in, MkView("Constant", 0), BoxSum(domain, sparse.window.box))
      offsets == WindowOffsets(sparse.window)
  IN  [p \in BoxSet(domain) |->
         Convolution(sparse.values, [k \in 1..Len(offsets) |-> img[PosAdd(p, offsets[k])]])]

\* convolution(values) * extrapolation<Constant>(in, 0)
DenseFilter(values, in) ==
  FilterFull("convolution", values.data, CenteredWindow(values), in, MkView("Constant", 0))

\* The shapes of the weights given to sparse_convolution, and the weights.
SparseShapes ==
  {shape \in (1..MaxSparseLen) \X (1..MaxSparseLen) : shape[1] * shape[2] <= MaxSparseSize}

SparseWeights(shape) == Rasters(shape, {0, 1, 2})

\* The input: a raster whose cells all differ.
WtInput == RankRaster(<<3, 3>>)

\* sparse_convolution(values) and convolution(values) are built and applied
\* to the same input.
WtSparseApply ==
  /\ wtOp = "none"
  /\ \E shape \in SparseShapes : \E values \in SparseWeights(shape) : \E outside \in {0, 1} :
       /\ wtValues' = values
       /\ wtIn' = WtInput
       /\ wtKernel' = CenteredKernel("convolution", values)
       /\ wtSparse' = SparseConvolution(values, outside)
       /\ wtOut' = [dense |-> DenseFilter(values, WtInput),
                    sparse |-> SparseFilter(SparseConvolution(values, outside), WtInput)]
  /\ wtOp' = "sparse"
  /\ UNCHANGED notWtVars

\* The raster of n weights laid along an axis, each holding its rank.
LineRaster(n, axis) == RankRaster([i \in Axes |-> IF i = axis THEN n ELSE 1])

\* correlation_along<T, I>(values) or convolution_along<T, I>(values) is
\* built, and the centered filter of the same weights laid along the axis.
WtAlong ==
  /\ wtOp = "none"
  /\ \E n \in 1..MaxWtLen : \E axis \in Axes : \E kind \in {"correlation", "convolution"} :
       /\ wtValues' = LineRaster(n, axis)
       /\ wtKernel' = Along(kind, LineRaster(n, axis).data, <<axis>>)[1]
       /\ wtOut' = [centered |-> CenteredKernel(kind, LineRaster(n, axis)), axis |-> axis]
  /\ wtOp' = "along"
  /\ UNCHANGED <<wtIn, wtSparse>>
  /\ UNCHANGED notWtVars

WtNext == WtCentered \/ WtSparseApply \/ WtAlong

\* C21: the window of convolution(values) and correlation(values) runs on
\* each axis i, L being the length of the weights along it, from
\* -floor((L - 1) / 2) to L - 1 - floor((L - 1) / 2): it has the shape of the
\* weights, holds the offset zero, and for an even L its origin is the index
\* L / 2 - 1, the lower of the two in the middle; the kernel holds one weight
\* per position of the window.
C21_CenteredWindowRoundsDown ==
  wtOp = "centered" =>
    /\ \A i \in Axes :
         LET L == wtValues.shape[i]
             origin == (L - 1) \div 2
         IN  /\ wtKernel.window.front[i] = -origin
             /\ wtKernel.window.back[i] = L - 1 - origin
             /\ L % 2 = 0 => -wtKernel.window.front[i] = (L \div 2) - 1
    /\ BoxShape(wtKernel.window) = wtValues.shape
    /\ BoxContains(wtKernel.window, <<0, 0>>)
    /\ wtKernel.values = wtValues.data

\* Weights of an even length along one axis and an odd one along the other.
C21_Witness ==
  /\ wtOp = "centered"
  /\ wtValues.shape = <<4, 3>>
  /\ wtKernel.kind = "convolution"
  /\ wtKernel.window = MkBox(<<-1, -1>>, <<2, 1>>)

\* The unit vector of an axis.
UnitVec(axis) == [i \in Axes |-> IF i = axis THEN 1 ELSE 0]

\* The second difference of the extrapolated raster at p along the axes from
\* the k-th on.
RECURSIVE SecondDifferences(_, _, _, _, _)
SecondDifferences(in, c, axes, p, k) ==
  IF k > Len(axes) THEN 0
  ELSE ConstantAt(in, c, PosSub(p, UnitVec(axes[k]))) - 2 * ConstantAt(in, c, p)
       + ConstantAt(in, c, PosAdd(p, UnitVec(axes[k])))
       + SecondDifferences(in, c, axes, p, k + 1)

\* C22: laplace_operator<T, Is...>(sign) gives at every position p the sum
\* over the axes i listed of sign * (in[p - e_i] - 2 in[p] + in[p + e_i]), each
\* axis filtered from the same input and the results added.
C22_LaplaceIsSumOfSecondDifferences ==
  filOp = "laplace" =>
    \A p \in BoxSet(RasterDomain(filIn)) :
      filOut.agg[p] = filKernel.sign * SecondDifferences(filIn, filView.value, filKernel.axes, p, 1)

\* Both axes, a negative sign, a raster that is not flat: the value at a
\* cell holding a one between zeros along both axes is 4.
C22_Witness ==
  /\ filOp = "laplace"
  /\ filKernel.axes = <<1, 2>>
  /\ filKernel.sign = -1
  /\ filView.value = 0
  /\ \E p \in BoxSet(RasterDomain(filIn)) : filOut.agg[p] = 4
  /\ \E p \in BoxSet(RasterDomain(filIn)) : filOut.agg[p] = -1

\* p + j * e, e the unit vector of an axis.
Along1(p, axis, j) == [i \in Axes |-> IF i = axis THEN p[i] + j ELSE p[i]]

\* The difference in[q + e_d] - in[q - e_d] of the extrapolated raster.
CentralDifference(in, c, d, q) ==
  ConstantAt(in, c, Along1(q, d, 1)) - ConstantAt(in, c, Along1(q, d, -1))

\* C23: the gradient filters give at p the sum over the three positions
\* q = p - e_a, p, p + e_a along the averaging axis, weighted by {1,1,1}
\* (Prewitt), {1,2,1} (Sobel) or {3,10,3} (Scharr), of
\* sign * (in[q + e_d] - in[q - e_d]) along the derivation axis: the difference
\* is taken toward the increasing indices for sign = 1, and the opposite sign
\* gives the opposite value.
C23_GradientIsWeightedDifference ==
  filOp = "gradient" =>
    \A p \in BoxSet(RasterDomain(filIn)) :
      /\ filOut.gradient[p] =
           filKernel.values[1] * filKernel.sign
             * CentralDifference(filIn, filView.value, filKernel.derivation,
                                 Along1(p, filKernel.averaging, -1))
           + filKernel.values[2] * filKernel.sign
             * CentralDifference(filIn, filView.value, filKernel.derivation, p)
           + filKernel.values[3] * filKernel.sign
             * CentralDifference(filIn, filView.value, filKernel.derivation,
                                 Along1(p, filKernel.averaging, 1))
      /\ filOut.opposite[p] = -filOut.gradient[p]
      /\ filKernel.values =
           (CASE filKernel.kind = "prewitt" -> <<1, 1, 1>>
              [] filKernel.kind = "sobel" -> <<1, 2, 1>>
              [] filKernel.kind = "scharr" -> <<3, 10, 3>>)

\* Scharr along axis 0 averaged along axis 1, sign 1, on a raster with a
\* single one at (1, 0) seen through Constant(0): 10 before the one along the
\* derivation axis, -10 after it.
C23_Witness ==
  /\ filOp = "gradient"
  /\ filKernel.kind = "scharr"
  /\ filKernel.sign = 1
  /\ filKernel.derivation = 1
  /\ filKernel.averaging = 2
  /\ filView.value = 0
  /\ RasterAt(filIn, <<1, 0>>) = 1
  /\ Cardinality({k \in 1..Len(filIn.data) : filIn.data[k] = 1}) = 1
  /\ filOut.gradient[<<0, 0>>] = 10
  /\ filOut.gradient[<<2, 0>>] = -10
  /\ filOut.gradient[<<0, 1>>] = 3

(***************************************************************************)
(* Claims on the builder calls of Affinity.                                *)
(***************************************************************************)
\* Every number the affinity holds is finite: no singular map was inverted.
IsFiniteAffinity(a) ==
  /\ \A i \in Axes : \A j \in Axes : IsFinite(a.map[i][j])
  /\ \A i \in Axes : IsFinite(a.translation[i]) /\ IsFinite(a.center[i])

IsZeroVec(v) == \A i \in Axes : IsZero(v[i])

\* C24: after any sequence of builder calls (translations by a scalar or a
\* vector, scalings and their inverses, rotations, inversions) on an
\* affinity with center c, applying it to x gives a * (x - c) + b + c, the
\* terms summed in the order of the code; the center is sent to c + b, and to
\* itself while the translation is zero, which the calls that are not
\* translations keep it.
C24_CenterIsFixedPoint ==
  affOp # "none" =>
    /\ \A x \in AffPoints :
         VecEq(AffinityApply(aff, x),
               VecAdd(VecAdd(aff.translation, aff.center),
                      MatVec(aff.map, VecSub(x, aff.center))))
    /\ VecEq(AffinityApply(aff, aff.center), VecAdd(aff.center, aff.translation))
    /\ IsZeroVec(aff.translation) => VecEq(AffinityApply(aff, aff.center), aff.center)
    /\ (affOp \in {"*=", "/=", "rotate", "inverse"} /\ IsZeroVec(affPrev.translation)) =>
         IsZeroVec(aff.translation)

\* While the affinity holds finite numbers, applying it to x gives
\* a * (x - c) + b + c, within its rounding when the sum is taken in another
\* order than the code's; the center is sent to c + b exactly, and to itself
\* while the translation is zero, which the calls that are not translations
\* keep it.
CenterIsFixedPointWhereFinite ==
  (affOp # "none" /\ IsFiniteAffinity(aff)) =>
    /\ \A x \in AffPoints :
         \A linear \in {MatVec(aff.map, VecSub(x, aff.center))} :
           /\ VecEq(AffinityApply(aff, x),
                    VecAdd(VecAdd(aff.translation, aff.center), linear))
           /\ VecWithin(AffinityApply(aff, x),
                        VecAdd(VecAdd(linear, aff.translation), aff.center),
                        RMul(Tolerance,
                             RAdd(RAdd(One, VecSize(linear)),
                                  RAdd(VecSize(aff.translation), VecSize(aff.center)))))
    /\ VecEq(AffinityApply(aff, aff.center), VecAdd(aff.center, aff.translation))
    /\ IsZeroVec(aff.translation) => VecEq(AffinityApply(aff, aff.center), aff.center)
    /\ (affOp \in {"*=", "/=", "rotate", "inverse"} /\ IsZeroVec(affPrev.translation)) =>
         IsZeroVec(aff.translation)

\* The center is sent to something else than c + b only by an affinity that
\* holds a number that is not finite, left by a scaling by the inverse of
\* zero or by the inversion of a singular map.
CenterMovesOnlyWhereNotFinite ==
  (affOp # "none" /\ ~VecEq(AffinityApply(aff, aff.center), VecAdd(aff.center, aff.translation))) =>
    /\ ~IsFiniteAffinity(aff)
    /\ \/ affOp \in {"/=", "inverse"}
       \/ ~IsFiniteAffinity(affPrev)

(***************************************************************************)
(* ProgramOptions.  An option declared is its value semantics: whether it  *)
(* takes its value from the next token, whether it has a default value,    *)
(* and which.  A command line is the tokens after argv[0]: "--name" or a   *)
(* number.  true and false are the values 1 and 0.                         *)
(***************************************************************************)
MkOption(kind, hasDefault, default) == [kind |-> kind, hasDefault |-> hasDefault, default |-> default]

\* flag(): value<bool>()->default_value(false)->implicit_value(true)
FlagOption == MkOption("flag", TRUE, 0)

\* named<T>(name, description): value<T>()
NamedOption == MkOption("named", FALSE, 0)

\* named<T>(name, description, default_value): value<T>()->default_value(default_value)
NamedDefaultOption(default) == MkOption("named", TRUE, default)

\* positional<T>(name, description): value<T>()
PositionalOption == MkOption("positional", FALSE, 0)

\* positional<T>(name, description, default_value): value<T>()->default_value(default_value)
PositionalDefaultOption(default) == MkOption("positional", TRUE, default)

MkValue(value, defaulted) == [value |-> value, defaulted |-> defaulted]

\* The token "--name"
KeyToken(name) == [key |-> name, value |-> 0]

\* The token that is the number value
WordToken(value) == [key |-> "", value |-> value]

IsKey(token) == token.key # ""

MkParsed(key, value) == [key |-> key, value |-> value]

Thrown == [thrown |-> TRUE, options |-> <<>>]

\* command_line_parser(argc, argv).options(m_named).positional(m_positional).run():
\* the options of the command line with their values.  An option that was
\* not declared, an option that takes a value as the last token, and a
\* number beyond the positional options declared make it throw.  A flag
\* takes its implicit value true, another option the token after it, and
\* the numbers on their own go to the positional options in their order.
RECURSIVE Run(_, _, _, _, _, _)
Run(decl, positional, args, k, position, parsed) ==
  IF k > Len(args) THEN [thrown |-> FALSE, options |-> parsed]
  ELSE IF IsKey(args[k])
  THEN IF args[k].key \notin DOMAIN decl THEN Thrown
       ELSE IF decl[args[k].key].kind = "flag"
       THEN Run(decl, positional, args, k + 1, position, Append(parsed, MkParsed(args[k].key, 1)))
       ELSE IF k = Len(args) THEN Thrown
       ELSE Run(decl, positional, args, k + 2, position, Append(parsed, MkParsed(args[k].key, args[k + 1].value)))
  ELSE IF position >= Len(positional) THEN Thrown
  ELSE Run(decl, positional, args, k + 1, position + 1, Append(parsed, MkParsed(positional[position + 1], args[k].value)))

\* The options a command line sets, by name or by position
SetBy(decl, positional, args) ==
  {Run(decl, positional, args, 1, 0, <<>>).options[k].key :
     k \in 1..Len(Run(decl, positional, args, 1, 0, <<>>).options)}

\* store(parsed, m_variables) and notify(): the value of every option of the
\* command line, unless an earlier command line has set that option; then,
\* for every other declared option that has a default value and no entry,
\* an entry holding that value
Store(variables, decl, parsed) ==
  LET given == {parsed[k].key : k \in 1..Len(parsed)}
      final == {n \in DOMAIN variables : ~variables[n].defaulted}
      valueOf(n) == parsed[CHOOSE k \in 1..Len(parsed) : parsed[k].key = n].value
  IN  [n \in DOMAIN variables \cup given \cup {o \in DOMAIN decl : decl[o].hasDefault} |->
         IF n \in final THEN variables[n]
         ELSE IF n \in given THEN MkValue(valueOf(n), FALSE)
         ELSE IF n \in DOMAIN variables THEN variables[n]
         ELSE MkValue(decl[n].default, TRUE)]

\* has(name): m_variables.count(name)
Has(variables, name) == name \in DOMAIN variables

\* as<T>(name): m_variables[name].as<T>()
As(variables, name) == variables[name].value

PoNames == {"alpha", "beta"}

PoWords == {1, 2}

MaxTokens == 3

MaxParses == 2

\* The command lines of at most MaxTokens tokens, a name of PoNames that is
\* not declared being an unknown option: every flag is the last token or
\* before another option, every other declared option is the last token
\* or before its value, and no option is given twice, by name or position.
CommandLines(decl, positional) ==
  {args \in UNION {[1..n -> {KeyToken(name) : name \in PoNames \cup DOMAIN decl} \cup {WordToken(v) : v \in PoWords}] :
                   n \in 0..MaxTokens} :
     /\ \A k \in 1..(Len(args) - 1) :
          (IsKey(args[k]) /\ args[k].key \in DOMAIN decl) =>
            (IsKey(args[k + 1]) <=> decl[args[k].key].kind = "flag")
     /\ \A j, k \in 1..Len(args) : (j < k /\ IsKey(args[j])) => args[j].key # args[k].key
     /\ \A j, k \in 1..Len(Run(decl, positional, args, 1, 0, <<>>).options) :
          j < k => Run(decl, positional, args, 1, 0, <<>>).options[j].key
                     # Run(decl, positional, args, 1, 0, <<>>).options[k].key}

PoInit ==
  /\ poHelp = ""
  /\ poDecl = <<>>
  /\ poPositional = <<>>
  /\ poArgs = <<>>
  /\ poVariables = <<>>
  /\ poParses = 0
  /\ poOp = "none"

\* ProgramOptions(description, help): the help flag is declared unless its
\* name is empty.
PoConstruct ==
  /\ poOp = "none"
  /\ \E help \in {"help", ""} :
       /\ poHelp' = help
       /\ poDecl' = IF help # "" THEN [n \in {help} |-> FlagOption] ELSE <<>>
  /\ poOp' = "ProgramOptions"
  /\ UNCHANGED <<poPositional, poArgs, poVariables, poParses>>
  /\ UNCHANGED notPoVars

\* m_add(name, value, description)
PoDeclare(name, option) ==
  /\ poOp \notin {"none", "exit"}
  /\ name \notin DOMAIN poDecl
  /\ poDecl' = [n \in DOMAIN poDecl \cup {name} |-> IF n = name THEN option ELSE poDecl[n]]
  /\ poOp' = "declare"
  /\ UNCHANGED <<poHelp, poArgs, poVariables, poParses>>
  /\ UNCHANGED notPoVars

PoFlag ==
  \E name \in PoNames : PoDeclare(name, FlagOption) /\ UNCHANGED poPositional

PoNamed ==
  \E name \in PoNames : PoDeclare(name, NamedOption) /\ UNCHANGED poPositional

PoNamedDefault ==
  \E name \in PoNames : PoDeclare(name, NamedDefaultOption(0)) /\ UNCHANGED poPositional

\* positional<T>(name, description): m_positional.add(name, 1) after m_add
PoPositional ==
  \E name \in PoNames : PoDeclare(name, PositionalOption) /\ poPositional' = Append(poPositional, name)

PoPositionalDefault ==
  \E name \in PoNames :
    PoDeclare(name, PositionalDefaultOption(0)) /\ poPositional' = Append(poPositional, name)

\* parse(argc, argv): a command line that run() rejects leaves m_variables
\* as it was; the help message is printed and the program exits if the help
\* flag is enabled and holds true.
PoParse ==
  /\ poOp \notin {"none", "exit"}
  /\ poParses < MaxParses
  /\ \E args \in CommandLines(poDecl, poPositional) :
       /\ poArgs' = args
       /\ \E parsed \in {Run(poDecl, poPositional, args, 1, 0, <<>>)} :
            IF parsed.thrown
            THEN poOp' = "throw" /\ UNCHANGED <<poVariables, poParses>>
            ELSE \E stored \in {Store(poVariables, poDecl, parsed.options)} :
                   /\ poVariables' = stored
                   /\ poParses' = poParses + 1
                   /\ poOp' = IF poHelp # "" /\ As(stored, poHelp) = 1 THEN "exit" ELSE "parse"
  /\ UNCHANGED <<poHelp, poDecl, poPositional>>
  /\ UNCHANGED notPoVars

PoNext ==
  \/ PoConstruct \/ PoFlag \/ PoNamed \/ PoNamedDefault \/ PoPositional \/ PoPositionalDefault
  \/ PoParse

\* C25: after parse, has(name) is true exactly for the options the command
\* line has set; for a flag, the help flag included, that is not on the
\* command line, has(name) is false while as<bool>(name) is false.
C25_HasIffOnCommandLine ==
  (poOp \in {"parse", "exit"} /\ poParses = 1) =>
    \A name \in DOMAIN poDecl :
      /\ Has(poVariables, name) <=> name \in SetBy(poDecl, poPositional, poArgs)
      /\ (poDecl[name].kind = "flag" /\ name \notin SetBy(poDecl, poPositional, poArgs)) =>
           ~Has(poVariables, name)

\* After the first parse, has(name) is true exactly for the options that the
\* command line has set or that have a default value; as<bool> of a flag that
\* is not on the command line is false.
HasIffSetOrDefaulted ==
  (poOp \in {"parse", "exit"} /\ poParses = 1) =>
    \A name \in DOMAIN poDecl :
      /\ Has(poVariables, name) <=>
           (name \in SetBy(poDecl, poPositional, poArgs) \/ poDecl[name].hasDefault)
      /\ (poDecl[name].kind = "flag" /\ name \notin SetBy(poDecl, poPositional, poArgs)) =>
           As(poVariables, name) = 0

\* A later parse keeps the values the earlier command lines have set, and
\* replaces the default values by those of its command line.
LaterParseKeepsSetValues ==
  [][(poOp' = "parse" /\ poParses' = poParses + 1) =>
       \A name \in DOMAIN poVariables :
         /\ Has(poVariables', name)
         /\ ~poVariables[name].defaulted => poVariables'[name] = poVariables[name]]_vars

\* C26: sparse_convolution(values) gives at every position the output of
\* convolution(values), the taps of weight zero left out, whatever the
\* weights, those that are not their own mirror such as {1, 2, 0} included.
C26_SparseEqualsDense ==
  wtOp = "sparse" => wtOut.sparse = wtOut.dense

\* C27: sparse_convolution(values) reads the reversed weights inside of
\* their raster only: every position of the mask it indexes them with has
\* its coordinates between 0 and shape[i] - 1.
C27_SparseReadsInsideWeights ==
  wtOp = "sparse" =>
    \A k \in 1..Len(wtSparse.reads) :
      \A i \in Axes : wtSparse.reads[k][i] >= 0 /\ wtSparse.reads[k][i] <= wtValues.shape[i] - 1

\* C28: for L >= 1 values, correlation_along<T, I> and convolution_along<T, I>
\* build along axis I the window of the centered filters for weights of
\* length L, its origin at the index floor((L - 1) / 2); the window holds L
\* positions and is reduced to 0 along the other axis.
C28_AlongWindowIsCentered ==
  wtOp = "along" =>
    LET L == Len(wtKernel.values)
        window == wtKernel.window
    IN  /\ window = wtOut.centered.window
        /\ -window.front[wtOut.axis] = (L - 1) \div 2
        /\ RasterSize(BoxShape(window)) = L
        /\ \A i \in Axes \ {wtOut.axis} : window.front[i] = 0 /\ window.back[i] = 0

\* The window of the along builders holds as many positions as there are
\* values, is reduced to 0 along the other axis, and is the centered window
\* when the number of values is odd.
AlongWindowOfOddLength ==
  wtOp = "along" =>
    LET L == Len(wtKernel.values)
        window == wtKernel.window
    IN  /\ RasterSize(BoxShape(window)) = L
        /\ \A i \in Axes \ {wtOut.axis} : window.front[i] = 0 /\ window.back[i] = 0
        /\ -window.front[wtOut.axis] = L \div 2
        /\ L % 2 = 1 => window = wtOut.centered.window

\* The call operator()(in, patch, pos) left the patch and the input as it
\* found them; when it returned at once it neither translated nor read the
\* patch, and otherwise it translated the patch by pos and back, and read
\* it at pos from its first position on, up to the first neighbor that is
\* settling (false for erosion, true for dilation) or to the end.
LeavesPatch(call, shortCircuit, settling) ==
  /\ call.patch = morphWin
  /\ call.in = morphIn
  /\ IF shortCircuit
     THEN call.shifts = <<>> /\ call.reads = <<>>
     ELSE /\ call.shifts = <<morphPos, PosNeg(morphPos)>>
          /\ Len(call.reads) \in 1..Len(WindowOffsets(morphWin))
          /\ \A k \in 1..Len(call.reads) :
               /\ call.reads[k] = PosAdd(morphPos, WindowOffsets(morphWin)[k])
               /\ k < Len(call.reads) => (RasterAt(morphIn, call.reads[k]) # 0) # settling
          /\ Len(call.reads) < Len(WindowOffsets(morphWin)) =>
               (RasterAt(morphIn, call.reads[Len(call.reads)]) # 0) = settling

\* C29: operator()(in, patch, pos) of BinaryErosion and BinaryDilation leaves
\* the patch where it found it on every path: when it returns at once (centre
\* false for erosion, centre true for dilation) the patch is neither
\* translated nor read, otherwise the translation by pos is undone before
\* returning; the input is never modified.
C29_PatchIsLeftInPlace ==
  /\ morphOp = "erosion" =>
       /\ LeavesPatch(morphPatch, RasterAt(morphIn, morphPos) = 0, FALSE)
       /\ morphPatch.out = BinaryErosionAt(morphIn, morphWin, morphPos)
  /\ morphOp = "dilation" =>
       /\ LeavesPatch(morphPatch, RasterAt(morphIn, morphPos) # 0, TRUE)
       /\ morphPatch.out = BinaryDilationAt(morphIn, morphWin, morphPos)

\* Erosion past a true centre at a position other than the origin: the patch
\* was translated, read there at two positions, and is back.
C29_Witness ==
  /\ morphOp = "erosion"
  /\ morphPos # <<0, 0>>
  /\ RasterAt(morphIn, morphPos) # 0
  /\ Len(morphPatch.reads) > 1
  /\ morphPatch.shifts = <<morphPos, PosNeg(morphPos)>>
  /\ morphPatch.patch = morphWin

\* Dilation at a true centre, erosion at a false one: the call returned at
\* once.
ShortCircuitReached ==
  /\ morphOp = "dilation"
  /\ RasterAt(morphIn, morphPos) # 0
  /\ morphPatch.shifts = <<>>

\* The builder calls that change the linear map, each with its arguments:
\* operator*=(value), operator*=(vector), operator/=(value),
\* operator/=(vector), rotateRadians(angle, from, to) and
\* rotateDegrees(angle, from, to).
LinearCalls ==
  {[call |-> o, value |-> s] : o \in {"*=", "/="}, s \in AffScalars}
  \cup {[call |-> o, vector |-> v] : o \in {"*=", "/="}, v \in AffVectors}
  \cup {[call |-> "rotate", angle |-> g, from |-> p[1], to |-> p[2]] :
          g \in AffAngles, p \in Axes \X Axes}
  \cup {[call |-> "rotateDegrees", angle |-> g, from |-> p[1], to |-> p[2]] :
          g \in AffDegrees, p \in Axes \X Axes}

LinearCall(a, c) ==
  IF c.call = "rotate" THEN AffinityRotate(a, c.angle, c.from, c.to)
  ELSE IF c.call = "rotateDegrees" THEN AffinityRotateDegrees(a, c.angle, c.from, c.to)
  ELSE IF c.call = "*="
  THEN (IF "value" \in DOMAIN c THEN AffinityTimesScalar(a, c.value)
        ELSE AffinityTimes(a, c.vector))
  ELSE (IF "value" \in DOMAIN c THEN AffinityOverScalar(a, c.value)
        ELSE AffinityOver(a, c.vector))

\* The affinities a translating call makes of one: operator+= and operator-=
\* by the vectors and by the scalars.
TranslationCalls ==
  {[call |-> o, vector |-> v] : o \in {"+=", "-="}, v \in AffVectors}
  \cup {[call |-> o, scalar |-> x] : o \in {"+=", "-="}, x \in AffShifts}

TranslationCall(a, c) ==
  IF "vector" \in DOMAIN c
  THEN IF c.call = "+=" THEN AffinityPlus(a, c.vector) ELSE AffinityMinus(a, c.vector)
  ELSE IF c.call = "+=" THEN AffinityPlusScalar(a, c.scalar)
       ELSE AffinityMinusScalar(a, c.scalar)

\* The displacement a translating call stands for.
Displacement(c) ==
  LET v == IF "vector" \in DOMAIN c THEN c.vector ELSE <<c.scalar, c.scalar>>
  IN  IF c.call = "+=" THEN v ELSE <<RNeg(v[1]), RNeg(v[2])>>

\* Two affinities send every point to the same point.
SameAffinity(a, b) == \A x \in AffPoints : VecEq(AffinityApply(a, x), AffinityApply(b, x))

\* C30: a builder call that changes the translation commutes with a builder
\* call that changes the linear map: translating and then scaling or
\* rotating gives the same affinity, field for field, with the same result
\* on every point where its numbers are finite, as scaling or rotating and
\* then translating, the displacement being added to the translation as it
\* is; a scaling and a rotation need not commute.
C30_TranslationCommutesWithLinear ==
  (affOp # "none" /\ affSteps <= MaxCommuteOps /\ IsFiniteAffinity(aff)) =>
    /\ \A t \in TranslationCalls : \A translated \in {TranslationCall(aff, t)} :
         /\ VecEq(translated.translation, VecAdd(aff.translation, Displacement(t)))
         /\ translated.map = aff.map
         /\ \A l \in LinearCalls :
              \A first \in {LinearCall(translated, l)} :
                \A after \in {TranslationCall(LinearCall(aff, l), t)} :
                  /\ first = after
                  /\ IsFiniteAffinity(first) => SameAffinity(first, after)
    /\ affOp = "Affinity" =>
         \E v \in AffVectors : \E g \in AffAngles :
           ~SameAffinity(AffinityRotate(AffinityTimes(aff, v), g, 1, 2),
                         AffinityTimes(AffinityRotate(aff, g, 1, 2), v))

\* An affinity turned and then translated, which is the one that the same
\* calls in the other order make.
C30_Witness ==
  /\ affOp = "+="
  /\ affSteps = 2
  /\ IsFiniteAffinity(aff)
  /\ ~IsZeroVec(aff.translation)
  /\ ~IsZeroVec(aff.center)
  /\ \E v \in AffVectors : \E g \in {HalfPi, Atan43} :
       /\ affPrev = AffinityRotate(AffinityCtor(aff.center), g, 1, 2)
       /\ aff = AffinityPlus(affPrev, v)
       /\ aff = AffinityRotate(AffinityPlus(AffinityCtor(aff.center), v), g, 1, 2)
       /\ ~SameAffinity(aff, affPrev)

(***************************************************************************)
(* Specifications: one per component, all from the same initial state.     *)
(***************************************************************************)
Init ==
  /\ GridInit /\ MedInit /\ MorphInit /\ MaskInit /\ NearInit /\ AffInit /\ KerInit
  /\ FilInit /\ PerInit /\ WtInit /\ PoInit

SpecGrid == Init /\ [][GridNext]_vars

SpecMedian == Init /\ [][MedNext]_vars

SpecMorph == Init /\ [][MorphNext]_vars

SpecPatch == Init /\ [][PatchNext]_vars

SpecBuild == Init /\ [][BuildNext]_vars

SpecMask == Init /\ [][MaskNext]_vars

SpecRegion == Init /\ [][RegionNext]_vars

SpecNearest == Init /\ [][NearNext]_vars

SpecAffinity == Init /\ [][AffNext]_vars

SpecKernel == Init /\ [][KerNext]_vars

SpecFilter == Init /\ [][FilNext]_vars

SpecPeriodic == Init /\ [][PerNext]_vars

SpecWeights == Init /\ [][WtNext]_vars

SpecOptions == Init /\ [][PoNext]_vars

====
